---- MODULE Spec2Model ----
(***************************************************************************)
(* A model of the rogerplayer playback core:                               *)
(*   - the lock-free SPSC ring buffer   (src/src/audio/ring_buffer.rs)     *)
(*   - the playback engine, its decoder worker and control calls           *)
(*                                       (src/src/engine/mod.rs)           *)
(*   - the audio output and its render callback (src/src/audio/output.rs)  *)
(*   - the streaming decoder adapter    (src/src/decode/decoder.rs)        *)
(*   - the playback statistics          (src/src/audio/stats.rs)           *)
(*   - the sample format conversions    (src/src/audio/format.rs)          *)
(*   - the mach timebase conversions    (src/src/audio/timing.rs)          *)
(*   - the caller's wait for the prebuffer (src/src/main.rs)               *)
(*                                                                         *)
(* In SpecRing, SpecWrap, SpecCallback and SpecOutput a sample value is    *)
(* the index (>= 1) of the sample in the producer's stream; in the engine  *)
(* specifications it is the i32 the decoder made of the file's sample.     *)
(* 0 is the silence value.                                                 *)
(***************************************************************************)
EXTENDS Integers, Sequences, FiniteSets, TLC

(***************************************************************************)
(* Bounds of the model.                                                    *)
(***************************************************************************)
\* Width of the position counters in bits (usize is 64 bits in the program).
WordBits == 5
\* The ring is built with capacity next_power_of_two(n), n in 1..MaxBufferFrames.
MaxBufferFrames == 4
\* Samples offered to the free-running producer of SpecRing.
MaxTotal == 6
\* Largest slice handed to one write / read call in SpecRing.
MaxChunk == 3

\* Frames per track (a file holds 0..MaxTrackFrames frames).
MaxTrackFrames == 2
\* Frames per decoded packet.
MaxPacketFrames == 2
\* Channels per track.
MaxChannels == 1
\* Frames the device asks for in one render callback.
MaxCallbackFrames == 2
\* Engine.play calls in one run.
MaxPlays == 2
\* Underruns recorded before the model stops asking for more than the ring holds.
MaxUnderruns == 1
\* EngineConfig.output.buffer_frames of the engine specifications.
EngineBufferFrames == 2
\* The worker's back-off threshold in frames (1024 in the program); the read
\* chunk is four times as large (4096 in the program).
MinFreeFrames == 1

\* Supported sample rates of a device in the sample-rate specification.
MaxSupported == 3

\* EngineConfig::default: prebuffer_ratio = 0.5, as a fraction
PrebufferNum == 1
PrebufferDen == 2

Modulus == 2 ^ WordBits

Min(a, b) == IF a <= b THEN a ELSE b
Max(a, b) == IF a >= b THEN a ELSE b

(***************************************************************************)
(* usize arithmetic                                                        *)
(***************************************************************************)
WrappingSub_Saturating(a, b) == IF a >= b THEN a - b ELSE 0
WrappingSub(a, b) == (a - b + Modulus) % Modulus
WrappingAdd(a, b) == (a + b) % Modulus

RECURSIVE BitAnd(_, _)
BitAnd(a, b) ==
    IF a = 0 \/ b = 0 THEN 0
    ELSE (IF a % 2 = 1 /\ b % 2 = 1 THEN 1 ELSE 0) + 2 * BitAnd(a \div 2, b \div 2)

RECURSIVE NextPowerOfTwoFrom(_, _)
NextPowerOfTwoFrom(p, n) == IF p >= n THEN p ELSE NextPowerOfTwoFrom(2 * p, n)
\* usize::next_power_of_two: the smallest power of two >= n (1 for n = 0).
NextPowerOfTwo(n) == NextPowerOfTwoFrom(1, n)

IsPowerOfTwo(n) == n >= 1 /\ BitAnd(n, n - 1) = 0

VARIABLES
    \* ---- RingBuffer<i32> ----
    capacity,       \* RingBuffer.capacity
    buffer,         \* RingBuffer.buffer : [0..capacity-1 -> sample]
    write_pos,      \* RingBuffer.write_pos
    read_pos,       \* RingBuffer.read_pos
    \* ---- free-running producer / consumer threads of SpecRing ----
    prod,           \* the producer inside RingBuffer::write: pc and locals
    cons,           \* the consumer inside RingBuffer::read: pc and locals
    accepted,       \* number of samples accepted by write so far (they are 1..accepted)
    delivered,      \* concatenation of everything read returned
    \* ---- Engine (owned by the control thread) ----
    state,          \* Engine.state : PlaybackState
    output,         \* Engine.output : Option<AudioOutput> (some, paused)
    decoder_thread, \* Engine.decoder_thread : Option<JoinHandle> is Some
    decoder_state,  \* Engine.decoder_state : running, paused, eof_reached, samples_decoded
    stats,          \* Engine.stats : PlaybackStats (samples_played, underrun_count)
    ctl,            \* the control thread: the call in progress, its locals, its result
    plays,          \* number of Engine.play calls made
    \* ---- decoder worker thread ----
    worker,         \* decoder_thread_main: pc and locals
    iter,           \* the DecoderIterator the worker owns (decoder, double_buffer)
    park_token,     \* the worker thread's park/unpark token
    \* ---- audio output, render thread ----
    ctx,            \* the AudioOutput of the track: context : CallbackContext (alive,
                    \* running, mode, ...) and hog_mode_acquired (hog)
    device_on,      \* the device (or unit) is started: the OS invokes the callback
    cb,             \* the render callback: pc and locals, the device buffer it filled
    \* ---- sample-rate negotiation ----
    rate,           \* a target_sample_rate call: requested, supported, the rate selected
    \* ---- pure conversions ----
    codec,          \* AudioFormat: one sample through bytes_to_samples, samples_to_bytes
    clock           \* timing: a nanosecond value through ns_to_mach_ticks, mach_ticks_to_ns

ringVars == <<capacity, buffer, write_pos, read_pos>>
freeVars == <<prod, cons, accepted, delivered>>
controlVars == <<state, output, decoder_thread, ctl, plays>>
workerVars == <<worker, iter, park_token>>
renderVars == <<ctx, device_on, cb>>
engineVars == <<controlVars, decoder_state, stats, workerVars, renderVars>>

\* What the steps of SpecRing leave alone, and what the steps of the engine
\* specifications leave alone.
outsideRing == <<engineVars, rate, codec, clock>>
outsideEngine == <<freeVars, rate, codec, clock>>

(***************************************************************************)
(* RingBuffer: the pure parts of write and read                            *)
(***************************************************************************)
\* RingBuffer::new: mask
Mask == capacity - 1

\* write: used = write.wrapping_sub(read); free = capacity - used;
\*        to_write = data.len().min(free)
WriteToWrite_NoSpaceCheck(write, read, len) == len
WriteToWrite(write, read, len) == Min(len, capacity - WrappingSub(write, read))

\* read: available = write.wrapping_sub(read); to_read = output.len().min(available)
ReadToRead_NoAvailCheck(read, write, len) == len
ReadToRead_AtMostOne(read, write, len) == Min(1, Min(len, WrappingSub(write, read)))
ReadToRead(read, write, len) == Min(len, WrappingSub(write, read))

\* first_part = (capacity - idx).min(count), idx = pos & mask
FirstPart(pos, count) == Min(capacity - BitAnd(pos, Mask), count)

\* copy_nonoverlapping(src + off, &buffer[idx], len): store data[off+1 .. off+len]
\* into the slots idx .. idx+len-1
CopyIn(buf, idx, data, off, len) ==
    [i \in DOMAIN buf |->
        IF i >= idx /\ i < idx + len THEN data[off + (i - idx) + 1] ELSE buf[i]]

\* copy_nonoverlapping(&buffer[idx], dst, len): the slots idx .. idx+len-1
CopyOut(buf, idx, len) == [j \in 1..len |-> buf[idx + j - 1]]

\* The whole data movement of write: first part at write & mask, second at 0.
WriteCopy(buf, write, data, to_write) ==
    LET first == FirstPart(write, to_write)
        b1 == CopyIn(buf, BitAnd(write, Mask), data, 0, first)
    IN  IF to_write - first > 0 THEN CopyIn(b1, 0, data, first, to_write - first) ELSE b1

\* The whole data movement of read.
ReadCopy(buf, read, to_read) ==
    LET first == FirstPart(read, to_read)
    IN  CopyOut(buf, BitAnd(read, Mask), first)
            \o (IF to_read - first > 0 THEN CopyOut(buf, 0, to_read - first) ELSE <<>>)

\* RingBuffer::clear: let write = self.write_pos.0.load(Acquire);
\* self.read_pos.0.store(write, Release) -- the new read_pos
ClearReadPos_Keep(write, read) == read
ClearReadPos(write, read) == write

\* RingBuffer::new(capacity)
RingNew(cap) ==
    /\ capacity = cap
    /\ buffer = [i \in 0..cap - 1 |-> 0]
    /\ write_pos = 0
    /\ read_pos = 0

(***************************************************************************)
(* Decoder: AudioDecoder, DoubleBuffer and DecoderIterator                 *)
(***************************************************************************)
\* AudioDecoder::open on a file of `frames` frames of `ch` channels and `bits`
\* bits per sample: the samples still in the file are the samples number
\* next .. next + remaining - 1.
DecoderOpen(frames, ch, bits) ==
    [remaining |-> frames * ch, next |-> 1, channels |-> ch, bits |-> bits]
NoDecoder == [remaining |-> 0, next |-> 1, channels |-> 1, bits |-> 16]

\* The file's content: its i-th sample, a signed integer of `bits` bits. The
\* samples run from the two ends of the range inwards (max, min, max - 1,
\* min + 1, ...), so no two are equal.
SourceSample(bits, i) ==
    IF i % 2 = 1
    THEN (2 ^ (bits - 2) - 1) * 2 + 1 - (i \div 2)
    ELSE -(2 ^ (bits - 2)) * 2 + (i \div 2) - 1

\* convert_s16_to_i32: (sample as i32) << 16, scalar and NEON path alike; no bit
\* of a 16-bit sample is shifted out of the 32
ConvertS16ToI32_Shift8(s) == s * 2 ^ 8
ConvertS16ToI32(s) == s * 2 ^ 16
\* decode_next_i32: match decoded { S16(buf) => convert_s16_to_i32,
\* S24(buf) => convert_s24_to_i32 (sample << 8), S32(buf) => convert_s32_to_i32
\* (the sample as it is) }
ConvertToI32(bits, s) ==
    CASE bits = 16 -> ConvertS16ToI32(s)
      [] bits = 24 -> s * 2 ^ 8
      [] OTHER -> s

\* What one call of decode_next_i32 can return: the next packet (of one or more
\* frames, or of zero frames), the empty slice at the end of the file, or an error.
DecodeNextI32(dec) ==
    {[kind |-> "err", samples |-> <<>>, dec |-> dec]}
    \cup (IF dec.remaining = 0
          THEN {[kind |-> "eof", samples |-> <<>>, dec |-> dec]}
          ELSE {[kind |-> "packet",
                 samples |-> [j \in 1..(p * dec.channels) |->
                                ConvertToI32(dec.bits, SourceSample(dec.bits, dec.next + j - 1))],
                 dec |-> [dec EXCEPT !.remaining = @ - p * dec.channels,
                                     !.next = @ + p * dec.channels]] :
                   p \in 0..Min(MaxPacketFrames, dec.remaining \div dec.channels)})

\* DoubleBuffer::new
DbNew == [buffers |-> <<<<>>, <<>>>>, active |-> 0, len |-> 0, position |-> 0]

\* DoubleBuffer::available
DbAvailable(db) == db.len - db.position

\* DoubleBuffer::read(count): the slice returned and the buffer afterwards
DbRead_NoAdvance(db, count) ==
    [slice |-> SubSeq(db.buffers[db.active + 1], db.position + 1,
                      db.position + Min(count, DbAvailable(db))),
     db |-> db]
DbRead(db, count) ==
    LET to_read == Min(count, DbAvailable(db))
    IN  [slice |-> SubSeq(db.buffers[db.active + 1], db.position + 1, db.position + to_read),
         db |-> [db EXCEPT !.position = @ + to_read]]

\* DoubleBuffer::swap_and_append(new_data)
DbSwapAndAppend_NoTail(db, new_data) ==
    [buffers |-> [db.buffers EXCEPT ![(1 - db.active) + 1] = new_data],
     active |-> 1 - db.active, len |-> Len(new_data), position |-> 0]
DbSwapAndAppend(db, new_data) ==
    LET remaining == DbAvailable(db)
        next == 1 - db.active
        tail == SubSeq(db.buffers[db.active + 1], db.position + 1, db.position + remaining)
        dst == tail \o new_data
    IN  [buffers |-> [db.buffers EXCEPT ![next + 1] = dst],
         active |-> next, len |-> Len(dst), position |-> 0]

\* DoubleBuffer::append(data)
DbAppend(db, data) ==
    [db EXCEPT !.buffers[db.active + 1] = data, !.len = Len(data), !.position = 0]

\* DecoderIterator::new
IterNew(dec) == [decoder |-> dec, double_buffer |-> DbNew]
NoIter == IterNew(NoDecoder)

\* DecoderIterator::read_i32(count), o being what decode_next_i32 returns if it
\* is called: [ok, samples, iter]
ReadI32(it, count, o) ==
    IF DbAvailable(it.double_buffer) >= count
    THEN LET r == DbRead(it.double_buffer, count)
         IN  [ok |-> TRUE, samples |-> r.slice, iter |-> [it EXCEPT !.double_buffer = r.db]]
    ELSE IF o.kind = "err"
    THEN [ok |-> FALSE, samples |-> <<>>, iter |-> it]
    ELSE IF o.samples = <<>>
    THEN LET r == DbRead(it.double_buffer, DbAvailable(it.double_buffer))
         IN  [ok |-> TRUE, samples |-> r.slice,
              iter |-> [decoder |-> o.dec, double_buffer |-> r.db]]
    ELSE LET db2 == IF DbAvailable(it.double_buffer) = 0
                    THEN DbAppend(it.double_buffer, o.samples)
                    ELSE DbSwapAndAppend(it.double_buffer, o.samples)
             r == DbRead(db2, Min(DbAvailable(db2), count))
         IN  [ok |-> TRUE, samples |-> r.slice,
              iter |-> [decoder |-> o.dec, double_buffer |-> r.db]]

(***************************************************************************)
(* AudioOutput: the choice of the device sample rate. Rates are whole       *)
(* numbers of Hz, so "within 1 Hz" (|a - b| < 1.0) is equality.             *)
(***************************************************************************)
Abs(x) == IF x < 0 THEN -x ELSE x

\* step 3 of select_optimal_sample_rate: the loop over supported from index i
\* on, with the best rate so far
RECURSIVE NearestFrom(_, _, _, _)
NearestFrom(requested, supported, i, best) ==
    IF i > Len(supported) THEN best
    ELSE LET r == supported[i]
         IN  NearestFrom(requested, supported, i + 1,
                         IF Abs(r - requested) < Abs(best - requested)
                            /\ (r >= requested \/ best < requested)
                         THEN r ELSE best)

\* select_optimal_sample_rate(requested, supported)
SelectOptimalSampleRate(requested, supported) ==
    LET sup == {supported[i] : i \in 1..Len(supported)}
        \* (requested / base).fract().abs() < 0.01
        family == IF (requested % 44100) * 100 < 44100 THEN {44100, 88200, 176400}
                  ELSE IF (requested % 48000) * 100 < 48000 THEN {48000, 96000, 192000}
                  ELSE {}
        \* for &rate in rates.iter().rev() { if rate <= requested + 1.0 { ... } }
        below == {r \in family : r <= requested + 1 /\ r \in sup}
    IN  IF supported = <<>> THEN requested
        ELSE IF requested \in sup THEN requested
        ELSE IF below # {} THEN CHOOSE r \in below : \A q \in below : q <= r
        ELSE NearestFrom(requested, supported, 1, supported[1])

\* The sample rate of the file (any rate a file header can carry) and the list
\* get_supported_sample_rates returns for the device: sorted, without duplicates.
RateInputs ==
    {[requested |-> q, supported |-> s] :
        q \in {22050, 44100, 46050, 48000, 50000, 88200, 96000, 144000, 176400, 192000},
        s \in {t \in UNION {[1..n -> {44100, 48000, 88200, 96000, 192000}] :
                                n \in 1..MaxSupported} :
                 \A i \in 1..(Len(t) - 1) : t[i] < t[i + 1]}}

\* No call of a pure conversion is modelled.
NoCall == [pc |-> "none"]

(***************************************************************************)
(* AudioFormat: one sample between its little-endian bytes and the i32     *)
(* left-aligned in the high bits. No shift below leaves the i32 range.     *)
(***************************************************************************)
\* AudioFormat::bytes_to_samples, one chunk of bits / 8 bytes: output[i].
\* i16::from_le_bytes, i32::from_le_bytes, and for 24 bits raw = b0 | b1 << 8 |
\* b2 << 16 with the sign extension (raw << 8) >> 8: the top byte carries the
\* sign; then the shift left by 32 - bits.
BytesToSamples(bits, chunk) ==
    LET n == Len(chunk)
        top == IF chunk[n] >= 128 THEN chunk[n] - 256 ELSE chunk[n]
        low[i \in 0..(n - 1)] ==
            IF i = 0 THEN 0 ELSE low[i - 1] + chunk[i] * 2^(8 * (i - 1))
    IN  (low[n - 1] + top * 2^(8 * (n - 1))) * 2^(32 - bits)

\* AudioFormat::samples_to_bytes, one sample: v = sample >> (32 - bits), then the
\* bytes (v >> 8k) & 0xFF, little-endian
SamplesToBytes_NoShift(bits, sample) ==
    [k \in 1..(bits \div 8) |-> (sample \div 2^(8 * (k - 1))) % 256]
SamplesToBytes(bits, sample) ==
    LET v == sample \div 2^(32 - bits)
    IN  [k \in 1..(bits \div 8) |-> (v \div 2^(8 * (k - 1))) % 256]

(***************************************************************************)
(* timing: mach ticks and nanoseconds                                      *)
(***************************************************************************)
\* The largest nanosecond value of the timing specification.
MaxNs == 200

\* mach_ticks_to_ns(ticks)
MachTicksToNs(info, ticks) == (ticks * info.numer) \div info.denom

\* ns_to_mach_ticks(ns)
NsToMachTicks_RoundUp(info, ns) == (ns * info.denom + info.numer - 1) \div info.numer
NsToMachTicks(info, ns) == (ns * info.denom) \div info.numer

\* No target_sample_rate call is modelled.
NoRate == [pc |-> "none", requested |-> 0, supported |-> <<>>, selected |-> 0]

(***************************************************************************)
(* Engine: construction                                                    *)
(***************************************************************************)
PlaybackStates == {"Stopped", "Playing", "Paused", "Buffering"}
OutputModes == {"Int32", "Int24", "Float32"}
SourceBits == {16, 24, 32}
Backends == {"HalIOProc", "AudioUnit"}
\* The formats the engine specifications negotiate at start (the bit-perfect
\* path); SpecCallback covers every mode and backend.
EngineFormats == {[output_mode |-> "Int32", source_bits |-> 16, backend |-> "HalIOProc"]}

NoOutput == [some |-> FALSE, paused |-> FALSE]
NoCtx == [alive |-> FALSE, running |-> FALSE, output_mode |-> "Int32", source_bits |-> 16,
          channels |-> 1, backend |-> "HalIOProc", hog |-> FALSE]
NoWorker == [pc |-> "none", channels |-> 1, available_write |-> 0, samples |-> <<>>,
             write |-> 0, samples_written |-> 0, prebuffered |-> FALSE, eof_signal |-> FALSE]
CbIdle == [pc |-> "idle", len |-> 0, read |-> 0, k |-> 0, to_read |-> 0, scratch |-> <<>>,
           out |-> <<>>, ran |-> FALSE, underruns_before |-> 0]
StatsNew == [samples_played |-> 0, underrun_count |-> 0]
\* The control thread between two calls: the last call and what it returned.
\* snap, low, pre, moves and counts are history: the state a toggle_pause found,
\* whether the fill dipped below the prebuffer ratio during a state() call,
\* whether the finished predicate held when is_track_finished was called, and
\* the ring writes and samples_decoded updates made since the engine was paused.
CtlNew == [pc |-> "idle", op |-> "none", ret |-> "none", write |-> 0, caller |-> "none",
           snap |-> "none", low |-> FALSE, pre |-> FALSE, moves |-> 0, counts |-> 0]
\* The call `op` returns `ret` to its caller.
CtlReturn(op, ret, c) == [c EXCEPT !.pc = "return", !.op = op, !.ret = ret, !.write = 0,
                                   !.caller = "none"]
\* The control pcs in which no play, stop or toggle_pause is in progress.
QuietPcs == {"idle", "return", "st_load_write", "st_load_read", "itf_load_write",
             "itf_load_read"}
InPauseWindow == state = "Paused" /\ ctl.pc \in QuietPcs

\* Engine::new(config)
EngineNew ==
    /\ state = "Stopped"
    /\ output = NoOutput
    /\ decoder_thread = FALSE
    /\ decoder_state = [running |-> FALSE, paused |-> FALSE, eof_reached |-> FALSE,
                        samples_decoded |-> 0]
    /\ stats = StatsNew
    /\ ctl = CtlNew
    /\ plays = 0
    /\ worker = NoWorker
    /\ iter = NoIter
    /\ park_token = FALSE
    /\ ctx = NoCtx
    /\ device_on = FALSE
    /\ cb = CbIdle

(***************************************************************************)
(* SpecRing: one producer thread calling write and one consumer thread     *)
(* calling read, every atomic load, memcpy and store a step of its own.    *)
(***************************************************************************)
ProdIdle == [pc |-> "idle", write |-> 0, read |-> 0, data |-> <<>>, to_write |-> 0, ret |-> 0]
ConsIdle == [pc |-> "idle", read |-> 0, write |-> 0, len |-> 0, to_read |-> 0,
             out |-> <<>>, ret |-> 0]

\* The producer calls write(data) with the next n samples of its stream.
PCall ==
    /\ prod.pc = "idle"
    /\ \E n \in 1..MaxChunk :
          /\ accepted + n <= MaxTotal
          /\ prod' = [ProdIdle EXCEPT !.pc = "load_write",
                                      !.data = [j \in 1..n |-> accepted + j]]
    /\ UNCHANGED <<ringVars, cons, accepted, delivered, outsideRing>>

\* let write = self.write_pos.0.load(Relaxed)
PLoadWrite ==
    /\ prod.pc = "load_write"
    /\ prod' = [prod EXCEPT !.pc = "load_read", !.write = write_pos]
    /\ UNCHANGED <<ringVars, cons, accepted, delivered, outsideRing>>

\* if to_write == 0 { return 0; }: where write goes on once to_write is known
WriteAfterLoads_Retry(tw) == IF tw = 0 THEN "load_write" ELSE "copy_first"
WriteAfterLoads(tw) == IF tw = 0 THEN "idle" ELSE "copy_first"

\* let read = self.read_pos.0.load(Acquire); to_write; if to_write == 0 return 0
PLoadRead ==
    /\ prod.pc = "load_read"
    /\ LET tw == WriteToWrite(prod.write, read_pos, Len(prod.data))
       IN  prod' = [prod EXCEPT !.read = read_pos, !.to_write = tw,
                                !.pc = WriteAfterLoads(tw),
                                !.ret = 0]
    /\ UNCHANGED <<ringVars, cons, accepted, delivered, outsideRing>>

\* copy_nonoverlapping(data, &buffer[write_idx], first_part)
PCopyFirst ==
    /\ prod.pc = "copy_first"
    /\ LET first == FirstPart(prod.write, prod.to_write)
       IN  /\ buffer' = CopyIn(buffer, BitAnd(prod.write, Mask), prod.data, 0, first)
           /\ prod' = [prod EXCEPT !.pc = IF prod.to_write - first > 0
                                          THEN "copy_second" ELSE "store"]
    /\ UNCHANGED <<capacity, write_pos, read_pos, cons, accepted, delivered, outsideRing>>

\* copy_nonoverlapping(data + first_part, &buffer[0], second_part)
PCopySecond ==
    /\ prod.pc = "copy_second"
    /\ LET first == FirstPart(prod.write, prod.to_write)
       IN  buffer' = CopyIn(buffer, 0, prod.data, first, prod.to_write - first)
    /\ prod' = [prod EXCEPT !.pc = "store"]
    /\ UNCHANGED <<capacity, write_pos, read_pos, cons, accepted, delivered, outsideRing>>

\* self.write_pos.0.store(write.wrapping_add(to_write), Release); to_write
PStore ==
    /\ prod.pc = "store"
    /\ write_pos' = WrappingAdd(prod.write, prod.to_write)
    /\ accepted' = accepted + prod.to_write
    /\ prod' = [prod EXCEPT !.pc = "idle", !.ret = prod.to_write]
    /\ UNCHANGED <<capacity, buffer, read_pos, cons, delivered, outsideRing>>

\* The consumer calls read(output) with an output slice of n samples.
CCall ==
    /\ cons.pc = "idle"
    /\ Len(delivered) < MaxTotal
    /\ \E n \in 1..MaxChunk :
          cons' = [ConsIdle EXCEPT !.pc = "load_read", !.len = n]
    /\ UNCHANGED <<ringVars, prod, accepted, delivered, outsideRing>>

\* let read = self.read_pos.0.load(Relaxed)
CLoadRead ==
    /\ cons.pc = "load_read"
    /\ cons' = [cons EXCEPT !.pc = "load_write", !.read = read_pos]
    /\ UNCHANGED <<ringVars, prod, accepted, delivered, outsideRing>>

\* let write = self.write_pos.0.load(Acquire); to_read; if to_read == 0 return 0
CLoadWrite ==
    /\ cons.pc = "load_write"
    /\ LET tr == ReadToRead(cons.read, write_pos, cons.len)
       IN  cons' = [cons EXCEPT !.write = write_pos, !.to_read = tr,
                                !.pc = IF tr = 0 THEN "idle" ELSE "copy_first",
                                !.ret = 0]
    /\ UNCHANGED <<ringVars, prod, accepted, delivered, outsideRing>>

\* copy_nonoverlapping(&buffer[read_idx], output, first_part)
CCopyFirst ==
    /\ cons.pc = "copy_first"
    /\ LET first == FirstPart(cons.read, cons.to_read)
       IN  cons' = [cons EXCEPT !.out = CopyOut(buffer, BitAnd(cons.read, Mask), first),
                                !.pc = IF cons.to_read - first > 0
                                       THEN "copy_second" ELSE "store"]
    /\ UNCHANGED <<ringVars, prod, accepted, delivered, outsideRing>>

\* copy_nonoverlapping(&buffer[0], output + first_part, second_part)
CCopySecond ==
    /\ cons.pc = "copy_second"
    /\ LET first == FirstPart(cons.read, cons.to_read)
       IN  cons' = [cons EXCEPT !.out = cons.out \o CopyOut(buffer, 0, cons.to_read - first),
                                !.pc = "store"]
    /\ UNCHANGED <<ringVars, prod, accepted, delivered, outsideRing>>

\* self.read_pos.0.store(read.wrapping_add(to_read), Release); to_read
CStore ==
    /\ cons.pc = "store"
    /\ read_pos' = WrappingAdd(cons.read, cons.to_read)
    /\ delivered' = delivered \o cons.out
    /\ cons' = [cons EXCEPT !.pc = "idle", !.ret = cons.to_read]
    /\ UNCHANGED <<capacity, buffer, write_pos, prod, accepted, outsideRing>>

FreeInit ==
    /\ prod = ProdIdle
    /\ cons = ConsIdle
    /\ accepted = 0
    /\ delivered = <<>>

InitRing ==
    /\ \E n \in 1..MaxBufferFrames : RingNew(NextPowerOfTwo(n))
    /\ FreeInit
    /\ EngineNew
    /\ rate = NoRate
    /\ codec = NoCall
    /\ clock = NoCall

NextRing ==
    \/ PCall \/ PLoadWrite \/ PLoadRead \/ PCopyFirst \/ PCopySecond \/ PStore
    \/ CCall \/ CLoadRead \/ CLoadWrite \/ CCopyFirst \/ CCopySecond \/ CStore

vars == <<ringVars, freeVars, engineVars, rate, codec, clock>>

SpecRing == InitRing /\ [][NextRing]_vars

(***************************************************************************)
(* Claims about the ring buffer                                            *)
(***************************************************************************)
IsPrefix(s, t) == Len(s) <= Len(t) /\ \A i \in 1..Len(s) : s[i] = t[i]

\* The stream accepted by write so far: the samples 1..accepted in order.
AcceptedStream == [i \in 1..accepted |-> i]

\* C1: under every interleaving of the steps of one producer in write and one
\* consumer in read, everything read has returned so far, concatenated, is a
\* prefix of everything write has accepted so far, concatenated: nothing is
\* lost, duplicated, reordered or read before it was written.
C1_ReadIsPrefixOfWritten ==
    /\ IsPrefix(delivered, AcceptedStream)
    /\ cons.pc = "store" => IsPrefix(delivered \o cons.out, AcceptedStream)

\* C1 witness: the consumer has returned samples read across the wrap of the
\* ring (two memcpys) while the producer is inside write.
C1_Witness ==
    /\ Len(delivered) >= capacity + 1
    /\ capacity >= 2
    /\ prod.pc = "copy_second"

\* C2: write_pos >= read_pos and write_pos - read_pos <= capacity in every
\* reachable state, and the value used computed inside write (from the two
\* loaded counters) never exceeds capacity, so capacity - used does not underflow.
C2_UsedWithinCapacity ==
    /\ write_pos >= read_pos
    /\ write_pos - read_pos <= capacity
    /\ prod.pc \in {"copy_first", "copy_second", "store"} =>
          /\ WrappingSub(prod.write, prod.read) <= capacity
          /\ capacity - WrappingSub(prod.write, prod.read) >= 0

\* C2 witness: the ring is full while the producer has computed used inside write
\* and the consumer is in the middle of read.
C2_Witness ==
    /\ write_pos - read_pos = capacity
    /\ capacity >= 2
    /\ cons.pc = "copy_first"
    /\ prod.pc = "load_read"

(***************************************************************************)
(* The decoder worker thread: Engine::decoder_thread_main                  *)
(***************************************************************************)
\* let read_chunk_size = 4096 * channels; let min_free_threshold = 1024 * channels
ReadChunkFrames == 4 * MinFreeFrames
ReadChunkSize(channels) == ReadChunkFrames * channels
MinFreeThreshold(channels) == MinFreeFrames * channels

\* RingBuffer::available and free_space, from the two loaded counters
Available(write, read) == WrappingSub(write, read)
FreeSpace_Whole(write, read) == capacity
FreeSpace(write, read) == capacity - WrappingSub(write, read)

\* fill >= capacity * prebuffer_ratio
ReachedPrebuffer(avail) == avail * PrebufferDen >= PrebufferNum * capacity

\* let prebuffer_samples = (ring_buffer.capacity() as f64 * prebuffer_ratio) as usize
PrebufferSamples == (capacity * PrebufferNum) \div PrebufferDen

\* The thread as spawned by play: about to test the loop condition.
WorkerStart(channels) == [NoWorker EXCEPT !.pc = "loop", !.channels = channels]

\* while state.running.load(Acquire) { ... }  -- after the loop the thread ends
WorkerLoop ==
    /\ worker.pc = "loop"
    /\ worker' = [worker EXCEPT !.pc = IF decoder_state.running THEN "pause_check" ELSE "done"]
    /\ UNCHANGED <<ringVars, controlVars, decoder_state, stats, iter, park_token,
                   renderVars, outsideEngine>>

\* while state.paused.load(Acquire): the loop condition
ShouldPark_Never(ds) == FALSE
ShouldPark(ds) == ds.paused

\* while state.paused.load(Acquire) { thread::park(); }
WorkerPauseCheck ==
    /\ worker.pc = "pause_check"
    /\ worker' = [worker EXCEPT !.pc = IF ShouldPark(decoder_state) THEN "park" ELSE "free_space"]
    /\ UNCHANGED <<ringVars, controlVars, decoder_state, stats, iter, park_token,
                   renderVars, outsideEngine>>

\* thread::park() returns, consuming the token an unpark left
WorkerPark ==
    /\ worker.pc = "park"
    /\ park_token
    /\ park_token' = FALSE
    /\ worker' = [worker EXCEPT !.pc = "pause_check"]
    /\ UNCHANGED <<ringVars, controlVars, decoder_state, stats, iter, renderVars,
                   outsideEngine>>

\* thread::park() returns without a token (a spurious wakeup)
WorkerParkSpurious ==
    /\ worker.pc = "park"
    /\ ~park_token
    /\ worker' = [worker EXCEPT !.pc = "pause_check"]
    /\ UNCHANGED <<ringVars, controlVars, decoder_state, stats, iter, park_token,
                   renderVars, outsideEngine>>

\* let available_write = ring_buffer.free_space(); if available_write < min_free_threshold
WorkerFreeSpace ==
    /\ worker.pc = "free_space"
    /\ LET aw == FreeSpace(write_pos, read_pos)
       IN  worker' = [worker EXCEPT !.available_write = aw,
                                    !.pc = IF aw < MinFreeThreshold(worker.channels)
                                           THEN "backoff" ELSE "decode"]
    /\ UNCHANGED <<ringVars, controlVars, decoder_state, stats, iter, park_token,
                   renderVars, outsideEngine>>

\* the back-off (spin, yield or sleep), then continue
WorkerBackoff ==
    /\ worker.pc = "backoff"
    /\ worker' = [worker EXCEPT !.pc = "loop"]
    /\ UNCHANGED <<ringVars, controlVars, decoder_state, stats, iter, park_token,
                   renderVars, outsideEngine>>

\* match decoder_iter.read_i32(available_write.min(read_chunk_size))
WorkerDecode ==
    /\ worker.pc = "decode"
    /\ \E o \in DecodeNextI32(iter.decoder) :
          LET r == ReadI32(iter, Min(worker.available_write, ReadChunkSize(worker.channels)), o)
          IN  /\ iter' = r.iter
              /\ worker' = [worker EXCEPT
                               !.samples = r.samples,
                               !.eof_signal = @ \/ (r.ok /\ r.samples = <<>>),
                               !.pc = IF ~r.ok THEN "done"
                                      ELSE IF r.samples = <<>> THEN "set_eof"
                                      ELSE "write_load"]
    /\ UNCHANGED <<ringVars, controlVars, decoder_state, stats, park_token, renderVars,
                   outsideEngine>>

\* state.eof_reached.store(true, Release)
SetEof_Skip(ds) == ds
SetEof(ds) == [ds EXCEPT !.eof_reached = TRUE]

\* Ok(samples) if samples.is_empty(): state.eof_reached.store(true, Release); break
WorkerSetEof ==
    /\ worker.pc = "set_eof"
    /\ decoder_state' = SetEof(decoder_state)
    /\ worker' = [worker EXCEPT !.pc = "done"]
    /\ UNCHANGED <<ringVars, controlVars, stats, iter, park_token, renderVars, outsideEngine>>

\* ring_buffer.write(samples): the two loads and to_write
WorkerWriteLoad ==
    /\ worker.pc = "write_load"
    /\ LET tw == WriteToWrite(write_pos, read_pos, Len(worker.samples))
       IN  worker' = [worker EXCEPT !.write = write_pos, !.samples_written = tw,
                                    !.pc = IF tw = 0 THEN "count" ELSE "write_commit"]
    /\ UNCHANGED <<ringVars, controlVars, decoder_state, stats, iter, park_token,
                   renderVars, outsideEngine>>

\* ring_buffer.write(samples): the copies and the store of write_pos
WorkerWriteCommit ==
    /\ worker.pc = "write_commit"
    /\ buffer' = WriteCopy(buffer, worker.write, worker.samples, worker.samples_written)
    /\ write_pos' = WrappingAdd(worker.write, worker.samples_written)
    /\ worker' = [worker EXCEPT !.pc = "count"]
    /\ ctl' = [ctl EXCEPT !.moves = IF InPauseWindow THEN @ + 1 ELSE @]
    /\ UNCHANGED <<capacity, read_pos, state, output, decoder_thread, plays, decoder_state,
                   stats, iter, park_token, renderVars, outsideEngine>>

\* state.samples_decoded.fetch_add(samples_written as u64, Relaxed)
WorkerCount ==
    /\ worker.pc = "count"
    /\ decoder_state' = [decoder_state EXCEPT !.samples_decoded = @ + worker.samples_written]
    /\ worker' = [worker EXCEPT !.pc = "prebuffer"]
    /\ ctl' = [ctl EXCEPT !.counts = IF InPauseWindow /\ worker.samples_written > 0
                                     THEN @ + 1 ELSE @]
    /\ UNCHANGED <<ringVars, state, output, decoder_thread, plays, stats, iter, park_token,
                   renderVars, outsideEngine>>

\* if !prebuffered && ring_buffer.available() >= prebuffer_samples { prebuffered = true }
WorkerPrebuffer ==
    /\ worker.pc = "prebuffer"
    /\ worker' = [WorkerStart(worker.channels) EXCEPT
                     !.prebuffered = worker.prebuffered
                                     \/ Available(write_pos, read_pos) >= PrebufferSamples,
                     !.eof_signal = worker.eof_signal]
    /\ UNCHANGED <<ringVars, controlVars, decoder_state, stats, iter, park_token,
                   renderVars, outsideEngine>>

\* The worker's steps that do not depend on a spurious wakeup.
WorkerStep ==
    \/ WorkerLoop \/ WorkerPauseCheck \/ WorkerPark \/ WorkerFreeSpace \/ WorkerBackoff
    \/ WorkerDecode \/ WorkerSetEof \/ WorkerWriteLoad \/ WorkerWriteCommit
    \/ WorkerCount \/ WorkerPrebuffer

(***************************************************************************)
(* The render thread: hal_io_proc / render_callback, process_audio_output  *)
(***************************************************************************)
\* One slot of the device buffer after the callback: the ring sample it was
\* converted from, the output mode's conversion, and the dither term added.
Converted(mode, s, d) == [sample |-> s, conv |-> mode, dither |-> d, written |-> TRUE]
\* A slot the callback returned without writing.
Untouched == [sample |-> 0, conv |-> "none", dither |-> 0, written |-> FALSE]

\* The sign of a TPDF dither term (next_tpdf, or r1 + r2 - 256).
DitherNoise == {-1, 0, 1}

\* process_audio_output adds a dither term in Float32 mode, and in Int24 mode
\* when source_bits > 24.
AddsDither(c) ==
    \/ c.output_mode = "Float32"
    \/ c.output_mode = "Int24" /\ c.source_bits > 24

\* The scratch samples (to_read ring samples, then the zero fill up to len) as
\* the conversion loop can leave them in the device buffer.
ConvertAll(c, scratch, len) ==
    LET filled == [j \in 1..len |-> IF j <= Len(scratch) THEN scratch[j] ELSE 0]
    IN  IF AddsDither(c)
        THEN {[j \in 1..len |-> Converted(c.output_mode, filled[j], d[j])] :
                 d \in [1..len -> DitherNoise]}
        ELSE {[j \in 1..len |-> Converted(c.output_mode, filled[j], 0)]}

\* if !ctx.running: hal_io_proc writes zero bytes over the buffer, render_callback
\* returns at once
NotRunningOutput(c, len) ==
    IF c.backend = "HalIOProc"
    THEN [j \in 1..len |-> Converted("none", 0, 0)]
    ELSE [j \in 1..len |-> Untouched]

\* fill_ratio() < prebuffer_ratio at some moment of a state() call in progress
DippedLow(c, write, read) ==
    c.low \/ (c.pc \in {"st_load_write", "st_load_read"}
              /\ ~ReachedPrebuffer(Available(write, read)))

\* The OS invokes the callback for `frames` frames; the running check; and, in
\* ring_buffer.read, the loads of read_pos and write_pos and to_read.
CbInvoke ==
    /\ cb.pc = "idle"
    /\ device_on
    /\ ctx.alive
    /\ \E frames \in 1..MaxCallbackFrames :
          LET n == frames * ctx.channels
              k == Available(write_pos, read_pos)
              tr == ReadToRead(read_pos, write_pos, n)
          IN  IF ~ctx.running
              THEN cb' = [CbIdle EXCEPT !.pc = "return", !.len = n,
                                        !.out = NotRunningOutput(ctx, n)]
              ELSE /\ stats.underrun_count < MaxUnderruns \/ n <= k
                   /\ cb' = [CbIdle EXCEPT !.pc = IF tr = 0 THEN "stats" ELSE "copy",
                                           !.len = n, !.read = read_pos, !.k = k,
                                           !.to_read = tr, !.ran = TRUE,
                                           !.underruns_before = stats.underrun_count]
    /\ UNCHANGED <<ringVars, controlVars, decoder_state, stats, workerVars, ctx, device_on,
                   outsideEngine>>

\* ring_buffer.read: the copies out of the ring and the store of read_pos
CbCopy ==
    /\ cb.pc = "copy"
    /\ cb' = [cb EXCEPT !.scratch = ReadCopy(buffer, cb.read, cb.to_read), !.pc = "stats"]
    /\ read_pos' = WrappingAdd(cb.read, cb.to_read)
    /\ ctl' = [ctl EXCEPT !.low = DippedLow(ctl, write_pos, read_pos')]
    /\ UNCHANGED <<capacity, buffer, write_pos, state, output, decoder_thread, plays,
                   decoder_state, stats, workerVars, ctx, device_on, outsideEngine>>

\* The conversion loop has filled the device buffer: return NO_ERR.
CbReturn ==
    \E o \in ConvertAll(ctx, cb.scratch, cb.len) :
        cb' = [cb EXCEPT !.pc = "return", !.out = o]

\* The callback has returned; the device takes the buffer.
CbDone ==
    /\ cb.pc = "return"
    /\ cb' = CbIdle
    /\ UNCHANGED <<ringVars, controlVars, decoder_state, stats, workerVars, ctx, device_on,
                   outsideEngine>>

\* if samples_read < count { ctx.stats.record_underrun(); }
Shortfall_Never(samples_read, count) == FALSE
Shortfall(samples_read, count) == samples_read < count

\* ctx.stats.add_samples_played(samples_read); the zero fill of the shortfall
CbStats ==
    /\ cb.pc = "stats"
    /\ stats' = [stats EXCEPT !.samples_played = @ + cb.to_read]
    /\ IF Shortfall(cb.to_read, cb.len) THEN cb' = [cb EXCEPT !.pc = "underrun"] ELSE CbReturn
    /\ UNCHANGED <<ringVars, controlVars, decoder_state, workerVars, ctx, device_on, outsideEngine>>

\* if samples_read < count: ctx.stats.record_underrun()
CbUnderrun ==
    /\ cb.pc = "underrun"
    /\ stats' = [stats EXCEPT !.underrun_count = @ + 1]
    /\ CbReturn
    /\ UNCHANGED <<ringVars, controlVars, decoder_state, workerVars, ctx, device_on, outsideEngine>>

CallbackStep == CbInvoke \/ CbCopy \/ CbStats \/ CbUnderrun \/ CbDone

(***************************************************************************)
(* The control thread: Engine::play, stop, toggle_pause, state,            *)
(* is_track_finished; AudioOutput::start, pause, resume, stop              *)
(***************************************************************************)
\* play: running.store(true), paused.store(false), eof_reached.store(false),
\* samples_decoded.store(0)
DecoderStateAtPlay_KeepEof(ds) ==
    [ds EXCEPT !.running = TRUE, !.paused = FALSE, !.samples_decoded = 0]
DecoderStateAtPlay(ds) ==
    [ds EXCEPT !.running = TRUE, !.paused = FALSE, !.eof_reached = FALSE,
               !.samples_decoded = 0]

\* thread.thread().unpark(): leaves a token for a worker that has not finished
Unpark_Never == FALSE
Unpark == decoder_thread /\ worker.pc \notin {"done", "none"}

\* Engine::stop, entered from the caller `from` ("stop" or "play")
EnterStop_Skipped(from) == [ctl EXCEPT !.pc = "play_open", !.op = from, !.caller = from,
                                         !.moves = 0, !.counts = 0]
EnterStop_ClearFirst(from) == [ctl EXCEPT !.pc = "stop_clear", !.op = from,
                                            !.caller = from, !.moves = 0, !.counts = 0]
EnterStop(from) == [ctl EXCEPT !.pc = "stop_running", !.op = from, !.caller = from,
                               !.moves = 0, !.counts = 0]

\* The caller has the result of the call and is free to make the next call.
Return ==
    /\ ctl.pc = "return"
    /\ ctl' = [CtlNew EXCEPT !.moves = ctl.moves, !.counts = ctl.counts]
    /\ UNCHANGED <<ringVars, state, output, decoder_thread, plays, decoder_state, stats,
                   workerVars, renderVars, outsideEngine>>

\* pub fn stop(&mut self)
CallStop ==
    /\ ctl.pc = "idle"
    /\ ctl' = EnterStop("stop")
    /\ UNCHANGED <<ringVars, state, output, decoder_thread, plays, decoder_state, stats,
                   workerVars, renderVars, outsideEngine>>

\* self.decoder_state.running.store(false, Release)
StopRunning ==
    /\ ctl.pc = "stop_running"
    /\ decoder_state' = [decoder_state EXCEPT !.running = FALSE]
    /\ ctl' = [ctl EXCEPT !.pc = "stop_paused"]
    /\ UNCHANGED <<ringVars, state, output, decoder_thread, plays, stats, workerVars,
                   renderVars, outsideEngine>>

\* self.decoder_state.paused.store(false, Release)
StopPaused ==
    /\ ctl.pc = "stop_paused"
    /\ decoder_state' = [decoder_state EXCEPT !.paused = FALSE]
    /\ ctl' = [ctl EXCEPT !.pc = "stop_unpark"]
    /\ UNCHANGED <<ringVars, state, output, decoder_thread, plays, stats, workerVars,
                   renderVars, outsideEngine>>

\* if let Some(ref thread) = self.decoder_thread { thread.thread().unpark(); }
StopUnpark ==
    /\ ctl.pc = "stop_unpark"
    /\ park_token' = (park_token \/ Unpark)
    /\ ctl' = [ctl EXCEPT !.pc = "stop_join"]
    /\ UNCHANGED <<ringVars, state, output, decoder_thread, plays, decoder_state, stats,
                   worker, iter, renderVars, outsideEngine>>

\* if let Some(thread) = self.decoder_thread.take() { let _ = thread.join(); }
StopJoin ==
    /\ ctl.pc = "stop_join"
    /\ decoder_thread => worker.pc = "done"
    /\ decoder_thread' = FALSE
    /\ worker' = IF decoder_thread THEN NoWorker ELSE worker
    /\ iter' = IF decoder_thread THEN NoIter ELSE iter
    /\ park_token' = FALSE
    /\ ctl' = [ctl EXCEPT !.pc = "stop_output"]
    /\ UNCHANGED <<ringVars, state, output, plays, decoder_state, stats, renderVars,
                   outsideEngine>>

\* if let Some(mut output) = self.output.take() { output.stop()? }
\* AudioOutput::stop: ctx.running.store(false, Release)
StopOutput ==
    /\ ctl.pc = "stop_output"
    /\ ctx' = [ctx EXCEPT !.running = FALSE]
    /\ ctl' = [ctl EXCEPT !.pc = IF output.some THEN "stop_device" ELSE "stop_clear"]
    /\ UNCHANGED <<ringVars, state, output, decoder_thread, plays, decoder_state, stats,
                   workerVars, device_on, cb, outsideEngine>>

\* AudioOutput::stop, the output afterwards: the IOProc or unit is gone, hog mode
\* is released (hog_mode_acquired = false) and self.context = None
OutputStopped_KeepHog(c) == [NoCtx EXCEPT !.hog = c.hog]
OutputStopped(c) == NoCtx

\* AudioOutput::stop: AudioDeviceStop / AudioOutputUnitStop -- no further callback
\* is started
StopDevice ==
    /\ ctl.pc = "stop_device"
    /\ device_on' = FALSE
    /\ ctl' = [ctl EXCEPT !.pc = "stop_drop"]
    /\ UNCHANGED <<ringVars, state, output, decoder_thread, plays, decoder_state, stats,
                   workerVars, ctx, cb, outsideEngine>>

\* AudioOutput::stop: the device stop returns once no callback is in flight; the
\* IOProc or unit is destroyed, self.context = None, the output is dropped
StopDrop ==
    /\ ctl.pc = "stop_drop"
    /\ cb.pc = "idle"
    /\ ctx' = OutputStopped(ctx)
    /\ output' = NoOutput
    /\ ctl' = [ctl EXCEPT !.pc = "stop_clear"]
    /\ UNCHANGED <<ringVars, state, decoder_thread, plays, decoder_state, stats, workerVars,
                   device_on, cb, outsideEngine>>

\* self.ring_buffer.clear(); self.state = Stopped; Ok(())
StopClear ==
    /\ ctl.pc = "stop_clear"
    /\ read_pos' = ClearReadPos(write_pos, read_pos)
    /\ state' = "Stopped"
    /\ ctl' = IF ctl.caller = "play"
              THEN [ctl EXCEPT !.pc = "play_open"]
              ELSE CtlReturn("stop", "Ok", ctl)
    /\ UNCHANGED <<capacity, buffer, write_pos, output, decoder_thread, plays, decoder_state,
                   stats, workerVars, renderVars, outsideEngine>>

\* pub fn play(&mut self, path): if self.state != Stopped { self.stop()?; }
CallPlay ==
    /\ ctl.pc = "idle"
    /\ plays < MaxPlays
    /\ plays' = plays + 1
    /\ ctl' = IF state # "Stopped"
              THEN EnterStop("play")
              ELSE [ctl EXCEPT !.pc = "play_open", !.op = "play", !.caller = "play",
                               !.moves = 0, !.counts = 0]
    /\ UNCHANGED <<ringVars, state, output, decoder_thread, decoder_state, stats,
                   workerVars, renderVars, outsideEngine>>

\* AudioDecoder::open(path)?, DecoderIterator::new, AudioOutput::new(...)?
PlayOpen ==
    /\ ctl.pc = "play_open"
    /\ \/ /\ \E e \in {"DecodeError", "OutputError"} : ctl' = CtlReturn("play", e, ctl)
          /\ UNCHANGED <<iter, ctx>>
       \/ \E frames \in 0..MaxTrackFrames, ch \in 1..MaxChannels, f \in EngineFormats :
             /\ iter' = IterNew(DecoderOpen(frames, ch, f.source_bits))
             /\ ctx' = [alive |-> FALSE, running |-> FALSE, output_mode |-> f.output_mode,
                        source_bits |-> f.source_bits, channels |-> ch,
                        backend |-> f.backend, hog |-> FALSE]
             /\ ctl' = [ctl EXCEPT !.pc = "play_clear"]
    /\ UNCHANGED <<ringVars, state, output, decoder_thread, plays, decoder_state, stats,
                   worker, park_token, device_on, cb, outsideEngine>>

\* self.ring_buffer.clear(); self.stats.reset()
PlayClear ==
    /\ ctl.pc = "play_clear"
    /\ read_pos' = ClearReadPos(write_pos, read_pos)
    /\ stats' = StatsNew
    /\ ctl' = [ctl EXCEPT !.pc = "play_start"]
    /\ UNCHANGED <<capacity, buffer, write_pos, state, output, decoder_thread, plays,
                   decoder_state, workerVars, renderVars, outsideEngine>>

\* What acquire_hog_mode returns on the device of the engine specifications
\* (OutputConfig::default: exclusive_mode = true).
HogGranted == {TRUE}

\* AudioOutput::start returned Err: hog mode may have been acquired, and the
\* context may have been created (with running = true) before the failing call.
StartFailed(c) == {[c EXCEPT !.alive = a, !.running = a, !.hog = h] : a, h \in BOOLEAN}

\* output.start(ring_buffer, stats)?: hog mode is acquired, the context is created
\* with running = true and the device started; or the start fails, play returns
\* the error and the output is dropped (Drop for AudioOutput calls stop)
PlayStart ==
    /\ ctl.pc = "play_start"
    /\ \/ /\ \E h \in HogGranted :
                ctx' = [ctx EXCEPT !.alive = TRUE, !.running = TRUE, !.hog = h]
          /\ device_on' = TRUE
          /\ ctl' = [ctl EXCEPT !.pc = "play_spawn"]
          /\ iter' = iter
       \/ /\ \E c \in StartFailed(ctx) : ctx' = OutputStopped(c)
          /\ device_on' = FALSE
          /\ iter' = NoIter
          /\ ctl' = CtlReturn("play", "OutputError", ctl)
    /\ UNCHANGED <<ringVars, state, output, decoder_thread, plays, decoder_state, stats,
                   worker, park_token, cb, outsideEngine>>

\* the four decoder_state stores, thread::Builder::spawn, self.output = Some(output),
\* self.decoder_thread = Some(handle), self.state = Buffering, Ok(())
PlaySpawn ==
    /\ ctl.pc = "play_spawn"
    /\ decoder_state' = DecoderStateAtPlay(decoder_state)
    /\ worker' = WorkerStart(ctx.channels)
    /\ park_token' = FALSE
    /\ output' = [some |-> TRUE, paused |-> FALSE]
    /\ decoder_thread' = TRUE
    /\ state' = "Buffering"
    /\ ctl' = CtlReturn("play", "Ok", ctl)
    /\ UNCHANGED <<ringVars, plays, stats, iter, renderVars, outsideEngine>>


\* pub fn toggle_pause(&mut self): if self.state == Buffering, the state is
\* synchronised with fill_ratio() first
CallTogglePause ==
    /\ ctl.pc = "idle"
    /\ ctl' = [ctl EXCEPT !.pc = IF state = "Buffering" THEN "tp_load_write" ELSE "tp_match",
                          !.op = "toggle_pause", !.caller = "toggle_pause",
                          !.moves = 0, !.counts = 0]
    /\ UNCHANGED <<ringVars, state, output, decoder_thread, plays, decoder_state, stats,
                   workerVars, renderVars, outsideEngine>>

\* fill_ratio() -> available(): let write = self.write_pos.0.load(Acquire)
TpLoadWrite ==
    /\ ctl.pc = "tp_load_write"
    /\ ctl' = [ctl EXCEPT !.pc = "tp_load_read", !.write = write_pos]
    /\ UNCHANGED <<ringVars, state, output, decoder_thread, plays, decoder_state, stats,
                   workerVars, renderVars, outsideEngine>>

\* available(): let read = self.read_pos.0.load(Acquire); write.wrapping_sub(read);
\* if fill >= self.config.prebuffer_ratio { self.state = Playing }
TpLoadRead ==
    /\ ctl.pc = "tp_load_read"
    /\ state' = IF ReachedPrebuffer(Available(ctl.write, read_pos)) THEN "Playing" ELSE state
    /\ ctl' = [ctl EXCEPT !.pc = "tp_match", !.write = 0]
    /\ UNCHANGED <<ringVars, output, decoder_thread, plays, decoder_state, stats,
                   workerVars, renderVars, outsideEngine>>

\* PlaybackState::Playing => self.decoder_state.paused.store(true, Release): the
\* paused flag after the first statement of the match arm
PausedAtMatch_Always(st, paused) == TRUE
PausedAtMatch_Skip(st, paused) == paused
PausedAtMatch(st, paused) == IF st = "Playing" THEN TRUE ELSE paused

\* match self.state: Playing => self.decoder_state.paused.store(true, Release);
\* Paused | Buffering => (resume); Stopped => Err(InvalidState)
TpMatch ==
    /\ ctl.pc = "tp_match"
    /\ decoder_state' = [decoder_state EXCEPT !.paused = PausedAtMatch(state, @)]
    /\ ctl' = IF state = "Playing" THEN [ctl EXCEPT !.pc = "tp_pause_output", !.snap = state]
              ELSE IF state = "Stopped" THEN CtlReturn("toggle_pause", "Err", ctl)
              ELSE [ctl EXCEPT !.pc = "tp_resume_output", !.snap = state]
    /\ UNCHANGED <<ringVars, state, output, decoder_thread, plays, stats, workerVars,
                   renderVars, outsideEngine>>

\* if let Some(ref mut output) = self.output { output.pause()?; }
\* AudioOutput::pause: no-op if already paused; AudioDeviceStop / AudioOutputUnitStop,
\* an error status returned as Err, otherwise no further callback is started
TpPauseOutput ==
    /\ ctl.pc = "tp_pause_output"
    /\ \/ /\ output.some /\ ~output.paused
          /\ ctl' = CtlReturn("toggle_pause", "Err", ctl)
          /\ UNCHANGED device_on
       \/ /\ device_on' = (device_on /\ ~output.some)
          /\ ctl' = [ctl EXCEPT !.pc = "tp_pause_state"]
    /\ UNCHANGED <<ringVars, state, output, decoder_thread, plays, decoder_state, stats,
                   workerVars, ctx, cb, outsideEngine>>

\* AudioOutput::pause: the device stop returns once no callback is in flight;
\* self.paused = true; then self.state = Paused; Ok(())
TpPauseState ==
    /\ ctl.pc = "tp_pause_state"
    /\ cb.pc = "idle"
    /\ output' = [output EXCEPT !.paused = @ \/ output.some]
    /\ state' = "Paused"
    /\ ctl' = CtlReturn("toggle_pause", "Ok", [ctl EXCEPT !.moves = 0, !.counts = 0])
    /\ UNCHANGED <<ringVars, decoder_thread, plays, decoder_state, stats, workerVars,
                   renderVars, outsideEngine>>

\* if let Some(ref mut output) = self.output { output.resume()?; }
\* AudioOutput::resume: no-op if not paused; AudioDeviceStart / AudioOutputUnitStart,
\* an error status returned as Err, otherwise self.paused = false
TpResumeOutput ==
    /\ ctl.pc = "tp_resume_output"
    /\ \/ /\ output.some /\ output.paused
          /\ ctl' = CtlReturn("toggle_pause", "Err", ctl)
          /\ UNCHANGED <<output, device_on>>
       \/ /\ output' = [output EXCEPT !.paused = FALSE]
          /\ device_on' = (device_on \/ (output.some /\ output.paused))
          /\ ctl' = [ctl EXCEPT !.pc = "tp_resume_flag"]
    /\ UNCHANGED <<ringVars, state, decoder_thread, plays, decoder_state, stats, workerVars,
                   ctx, cb, outsideEngine>>

\* self.decoder_state.paused.store(false, Release)
TpResumeFlag ==
    /\ ctl.pc = "tp_resume_flag"
    /\ decoder_state' = [decoder_state EXCEPT !.paused = FALSE]
    /\ ctl' = [ctl EXCEPT !.pc = "tp_unpark"]
    /\ UNCHANGED <<ringVars, state, output, decoder_thread, plays, stats, workerVars,
                   renderVars, outsideEngine>>

\* if let Some(ref thread) = self.decoder_thread { thread.thread().unpark(); }
\* self.state = Playing; Ok(())
TpUnpark ==
    /\ ctl.pc = "tp_unpark"
    /\ park_token' = (park_token \/ Unpark)
    /\ state' = "Playing"
    /\ ctl' = CtlReturn("toggle_pause", "Ok", ctl)
    /\ UNCHANGED <<ringVars, output, decoder_thread, plays, decoder_state, stats, worker,
                   iter, renderVars, outsideEngine>>

\* pub fn state(&self): returns self.state unless it is Buffering
CallState ==
    /\ ctl.pc = "idle"
    /\ ctl' = IF state = "Buffering"
              THEN [ctl EXCEPT !.pc = "st_load_write", !.op = "state", !.caller = "state",
                               !.low = ~ReachedPrebuffer(Available(write_pos, read_pos))]
              ELSE CtlReturn("state", state, ctl)
    /\ UNCHANGED <<ringVars, state, output, decoder_thread, plays, decoder_state, stats,
                   workerVars, renderVars, outsideEngine>>

\* fill_ratio() -> available(): let write = self.write_pos.0.load(Acquire)
StLoadWrite ==
    /\ ctl.pc = "st_load_write"
    /\ ctl' = [ctl EXCEPT !.pc = "st_load_read", !.write = write_pos]
    /\ UNCHANGED <<ringVars, state, output, decoder_thread, plays, decoder_state, stats,
                   workerVars, renderVars, outsideEngine>>

\* available(): let read = self.read_pos.0.load(Acquire); write.wrapping_sub(read);
\* if fill >= self.config.prebuffer_ratio { return Playing }; self.state
StLoadRead ==
    /\ ctl.pc = "st_load_read"
    /\ ctl' = CtlReturn("state",
                        IF ReachedPrebuffer(Available(ctl.write, read_pos))
                        THEN "Playing" ELSE state,
                        ctl)
    /\ UNCHANGED <<ringVars, state, output, decoder_thread, plays, decoder_state, stats,
                   workerVars, renderVars, outsideEngine>>

\* eof_reached /\ available() = 0, on the counters as they are
TrackFinished == decoder_state.eof_reached /\ write_pos = read_pos

\* pub fn is_track_finished(&self): self.decoder_state.eof_reached.load(Acquire) && ...
CallIsTrackFinished ==
    /\ ctl.pc = "idle"
    /\ ctl' = IF decoder_state.eof_reached
              THEN [ctl EXCEPT !.pc = "itf_load_write", !.op = "is_track_finished",
                               !.caller = "is_track_finished", !.pre = TrackFinished]
              ELSE CtlReturn("is_track_finished", "false", [ctl EXCEPT !.pre = FALSE])
    /\ UNCHANGED <<ringVars, state, output, decoder_thread, plays, decoder_state, stats,
                   workerVars, renderVars, outsideEngine>>

\* ... && self.ring_buffer.available() == 0: let write = self.write_pos.0.load(Acquire)
ItfLoadWrite ==
    /\ ctl.pc = "itf_load_write"
    /\ ctl' = [ctl EXCEPT !.pc = "itf_load_read", !.write = write_pos]
    /\ UNCHANGED <<ringVars, state, output, decoder_thread, plays, decoder_state, stats,
                   workerVars, renderVars, outsideEngine>>

\* available(): let read = self.read_pos.0.load(Acquire); write.wrapping_sub(read) == 0
ItfLoadRead ==
    /\ ctl.pc = "itf_load_read"
    /\ ctl' = CtlReturn("is_track_finished",
                        IF Available(ctl.write, read_pos) = 0 THEN "true" ELSE "false",
                        ctl)
    /\ UNCHANGED <<ringVars, state, output, decoder_thread, plays, decoder_state, stats,
                   workerVars, renderVars, outsideEngine>>

\* The steps of a control call in progress.
ControlStep ==
    \/ StopRunning \/ StopPaused \/ StopUnpark \/ StopJoin \/ StopOutput \/ StopDevice
    \/ StopDrop \/ StopClear \/ PlayOpen \/ PlayClear \/ PlayStart \/ PlaySpawn
    \/ TpLoadWrite \/ TpLoadRead \/ TpMatch \/ TpPauseOutput \/ TpPauseState
    \/ TpResumeOutput
    \/ TpResumeFlag \/ TpUnpark \/ StLoadWrite \/ StLoadRead \/ ItfLoadWrite \/ ItfLoadRead
    \/ Return

(***************************************************************************)
(* Spec: the engine with its three threads                                 *)
(***************************************************************************)
\* Engine::new: the ring is built with buffer_frames.next_power_of_two() slots
Init ==
    /\ RingNew(NextPowerOfTwo(EngineBufferFrames))
    /\ FreeInit
    /\ EngineNew
    /\ rate = NoRate
    /\ codec = NoCall
    /\ clock = NoCall

Next ==
    \/ CallPlay \/ CallStop \/ CallTogglePause \/ CallState \/ CallIsTrackFinished \/ Return
    \/ StopRunning \/ StopPaused \/ StopUnpark \/ StopJoin \/ StopOutput \/ StopDevice
    \/ StopDrop \/ StopClear \/ PlayOpen \/ PlayClear \/ PlayStart \/ PlaySpawn
    \/ TpLoadWrite \/ TpLoadRead \/ TpMatch \/ TpPauseOutput \/ TpPauseState
    \/ TpResumeOutput
    \/ TpResumeFlag \/ TpUnpark \/ StLoadWrite \/ StLoadRead \/ ItfLoadWrite \/ ItfLoadRead
    \/ WorkerLoop \/ WorkerPauseCheck \/ WorkerPark \/ WorkerParkSpurious \/ WorkerFreeSpace
    \/ WorkerBackoff \/ WorkerDecode \/ WorkerSetEof \/ WorkerWriteLoad \/ WorkerWriteCommit
    \/ WorkerCount \/ WorkerPrebuffer
    \/ CbInvoke \/ CbCopy \/ CbStats \/ CbUnderrun \/ CbDone

Spec == Init /\ [][Next]_vars

(***************************************************************************)
(* SpecTight: the engine built with buffer_frames = 1, so that the ring is  *)
(* smaller than a packet and the adapter holds samples the ring has no     *)
(* room for.                                                               *)
(***************************************************************************)
InitTight ==
    /\ RingNew(NextPowerOfTwo(1))
    /\ FreeInit
    /\ EngineNew
    /\ rate = NoRate
    /\ codec = NoCall
    /\ clock = NoCall

SpecTight == InitTight /\ [][Next]_vars

(***************************************************************************)
(* SpecCallback: the render callback of a started output, in every output  *)
(* mode and on both backends, against a producer thread inside write.      *)
(***************************************************************************)
CallbackFormats ==
    [output_mode : OutputModes, source_bits : SourceBits, backend : Backends]

\* The engine after play has started the output: the context is alive and
\* running, the device invokes the callback; the producer stands for the worker.
InitCallback ==
    /\ \E n \in 1..MaxBufferFrames : RingNew(NextPowerOfTwo(n))
    /\ FreeInit
    /\ state = "Buffering"
    /\ output = [some |-> TRUE, paused |-> FALSE]
    /\ decoder_thread = TRUE
    /\ decoder_state = DecoderStateAtPlay(
                           [running |-> FALSE, paused |-> FALSE, eof_reached |-> FALSE,
                            samples_decoded |-> 0])
    /\ stats = StatsNew
    /\ ctl = CtlNew
    /\ plays = 1
    /\ worker = NoWorker
    /\ iter = NoIter
    /\ park_token = FALSE
    /\ \E f \in CallbackFormats, ch \in 1..MaxChannels :
          ctx = [alive |-> TRUE, running |-> TRUE, output_mode |-> f.output_mode,
                 source_bits |-> f.source_bits, channels |-> ch, backend |-> f.backend,
                 hog |-> TRUE]
    /\ device_on = TRUE
    /\ cb = CbIdle
    /\ rate = NoRate
    /\ codec = NoCall
    /\ clock = NoCall

\* AudioOutput::stop, its first step: context.running.store(false, Release); the
\* device is still started and keeps invoking the callback.
StopRunningFlag ==
    /\ ctx.alive /\ ctx.running
    /\ ctx' = [ctx EXCEPT !.running = FALSE]
    /\ UNCHANGED <<ringVars, controlVars, decoder_state, stats, workerVars, device_on, cb,
                   outsideEngine>>

NextCallback ==
    \/ PCall \/ PLoadWrite \/ PLoadRead \/ PCopyFirst \/ PCopySecond \/ PStore
    \/ CbInvoke \/ CbCopy \/ CbStats \/ CbUnderrun \/ CbDone
    \/ StopRunningFlag

SpecCallback == InitCallback /\ [][NextCallback]_vars

\* SpecFair: every thread that can take a step eventually takes one -- the
\* worker thread is scheduled (a spurious wakeup is never owed), the device keeps
\* invoking the callback while it is started, and a control call in progress
\* goes on. Which calls the control thread makes, and when, stays free.
\* The control thread makes no state() and is_track_finished() calls here.
Fairness == WF_vars(WorkerStep) /\ WF_vars(CallbackStep) /\ WF_vars(ControlStep)
NextFair ==
    \/ CallPlay \/ CallStop \/ CallTogglePause \/ Return
    \/ StopRunning \/ StopPaused \/ StopUnpark \/ StopJoin \/ StopOutput \/ StopDevice
    \/ StopDrop \/ StopClear \/ PlayOpen \/ PlayClear \/ PlayStart \/ PlaySpawn
    \/ TpLoadWrite \/ TpLoadRead \/ TpMatch \/ TpPauseOutput \/ TpPauseState
    \/ TpResumeOutput \/ TpResumeFlag \/ TpUnpark
    \/ WorkerLoop \/ WorkerPauseCheck \/ WorkerPark \/ WorkerParkSpurious \/ WorkerFreeSpace
    \/ WorkerBackoff \/ WorkerDecode \/ WorkerSetEof \/ WorkerWriteLoad \/ WorkerWriteCommit
    \/ WorkerCount \/ WorkerPrebuffer
    \/ CbInvoke \/ CbCopy \/ CbStats \/ CbUnderrun \/ CbDone
SpecFair == Init /\ [][NextFair]_vars /\ Fairness

(***************************************************************************)
(* SpecRate: AudioOutput::target_sample_rate on a device with a non-empty  *)
(* list of supported rates.                                                *)
(***************************************************************************)
InitRate ==
    /\ RingNew(NextPowerOfTwo(EngineBufferFrames))
    /\ FreeInit
    /\ EngineNew
    /\ \E in \in RateInputs :
          rate = [pc |-> "call", requested |-> in.requested, supported |-> in.supported,
                  selected |-> 0]
    /\ codec = NoCall
    /\ clock = NoCall

\* pub fn target_sample_rate(&self, requested_rate): select_optimal_sample_rate
TargetSampleRate ==
    /\ rate.pc = "call"
    /\ rate' = [rate EXCEPT !.pc = "done",
                            !.selected = SelectOptimalSampleRate(rate.requested,
                                                                 rate.supported)]
    /\ UNCHANGED <<ringVars, freeVars, engineVars, codec, clock>>

SpecRate == InitRate /\ [][TargetSampleRate]_vars

(***************************************************************************)
(* SpecFormat: one sample of every depth, from its bytes to the i32 and    *)
(* back to bytes.                                                          *)
(***************************************************************************)
InitFormat ==
    /\ RingNew(NextPowerOfTwo(EngineBufferFrames))
    /\ FreeInit
    /\ EngineNew
    /\ rate = NoRate
    /\ clock = NoCall
    /\ \E bits \in SourceBits : \E b \in [1..(bits \div 8) -> {0, 1, 127, 128, 255}] :
          codec = [pc |-> "call", bits |-> bits, bytes |-> b, sample |-> 0, back |-> <<>>]

\* format.bytes_to_samples(&bytes, &mut samples)
FormatDecode ==
    /\ codec.pc = "call"
    /\ codec' = [codec EXCEPT !.pc = "decoded",
                              !.sample = BytesToSamples(codec.bits, codec.bytes)]
    /\ UNCHANGED <<ringVars, freeVars, engineVars, rate, clock>>

\* format.samples_to_bytes(&samples, &mut bytes)
FormatEncode ==
    /\ codec.pc = "decoded"
    /\ codec' = [codec EXCEPT !.pc = "encoded",
                              !.back = SamplesToBytes(codec.bits, codec.sample)]
    /\ UNCHANGED <<ringVars, freeVars, engineVars, rate, clock>>

SpecFormat == InitFormat /\ [][FormatDecode \/ FormatEncode]_vars

(***************************************************************************)
(* SpecTiming: a nanosecond value to mach ticks and back.                  *)
(***************************************************************************)
InitTiming ==
    /\ RingNew(NextPowerOfTwo(EngineBufferFrames))
    /\ FreeInit
    /\ EngineNew
    /\ rate = NoRate
    /\ codec = NoCall
    \* mach_timebase_info: 1/1 on Intel, 125/3 on Apple Silicon
    /\ \E info \in {[numer |-> 1, denom |-> 1], [numer |-> 125, denom |-> 3]},
          n \in 0..MaxNs :
          clock = [pc |-> "call", info |-> info, ns |-> n, ticks |-> 0, recovered |-> 0]

\* let ticks = ns_to_mach_ticks(ns)
TimingToTicks ==
    /\ clock.pc = "call"
    /\ clock' = [clock EXCEPT !.pc = "ticks", !.ticks = NsToMachTicks(clock.info, clock.ns)]
    /\ UNCHANGED <<ringVars, freeVars, engineVars, rate, codec>>

\* let recovered_ns = mach_ticks_to_ns(ticks)
TimingToNs ==
    /\ clock.pc = "ticks"
    /\ clock' = [clock EXCEPT !.pc = "done",
                              !.recovered = MachTicksToNs(clock.info, clock.ticks)]
    /\ UNCHANGED <<ringVars, freeVars, engineVars, rate, codec>>

SpecTiming == InitTiming /\ [][TimingToTicks \/ TimingToNs]_vars

(***************************************************************************)
(* SpecAhead: the engine with a worker that is never behind: the device    *)
(* invokes the callback only when the worker has nothing it could do --    *)
(* it does not exist yet, has ended, is parked, or is backing off because  *)
(* the ring lacks min_free_threshold free slots.                           *)
(***************************************************************************)
\* The worker thread is able to decode and write: it is inside an iteration of
\* its loop, or about to begin one with running set, paused clear and at least
\* min_free_threshold slots free.
WorkerAble ==
    \/ worker.pc \in {"decode", "set_eof", "write_load", "write_commit", "count", "prebuffer"}
    \/ /\ \/ worker.pc \in {"loop", "pause_check", "free_space", "backoff"}
          \/ worker.pc = "park" /\ park_token
       /\ decoder_state.running /\ ~decoder_state.paused
       /\ FreeSpace(write_pos, read_pos) >= MinFreeThreshold(worker.channels)

CbInvokeAhead == ~WorkerAble /\ CbInvoke

NextAhead ==
    \/ CallPlay \/ CallStop \/ CallTogglePause \/ CallState \/ CallIsTrackFinished \/ Return
    \/ StopRunning \/ StopPaused \/ StopUnpark \/ StopJoin \/ StopOutput \/ StopDevice
    \/ StopDrop \/ StopClear \/ PlayOpen \/ PlayClear \/ PlayStart \/ PlaySpawn
    \/ TpLoadWrite \/ TpLoadRead \/ TpMatch \/ TpPauseOutput \/ TpPauseState
    \/ TpResumeOutput
    \/ TpResumeFlag \/ TpUnpark \/ StLoadWrite \/ StLoadRead \/ ItfLoadWrite \/ ItfLoadRead
    \/ WorkerLoop \/ WorkerPauseCheck \/ WorkerPark \/ WorkerParkSpurious \/ WorkerFreeSpace
    \/ WorkerBackoff \/ WorkerDecode \/ WorkerSetEof \/ WorkerWriteLoad \/ WorkerWriteCommit
    \/ WorkerCount \/ WorkerPrebuffer
    \/ CbInvokeAhead \/ CbCopy \/ CbStats \/ CbUnderrun \/ CbDone

SpecAhead == Init /\ [][NextAhead]_vars

(***************************************************************************)
(* Claims about the engine                                                 *)
(***************************************************************************)
StopPcs == {"stop_running", "stop_paused", "stop_unpark", "stop_join", "stop_output",
            "stop_device", "stop_drop", "stop_clear"}
Returned(op) == ctl.pc = "return" /\ ctl.op = op

\* C3: is_track_finished() returns true exactly when eof_reached is set and the
\* ring holds no samples: a result of true is returned only in a state where
\* both hold, a result of false only if they did not both hold when the call
\* began; and during a track (state not Stopped) it returns true only after the
\* decode path has handed the worker its end-of-file signal in this track.
C3_TrackFinishedExact ==
    Returned("is_track_finished") =>
        /\ ctl.ret = "true" => TrackFinished
        /\ ctl.ret = "false" => ~ctl.pre
        /\ ctl.ret = "true" /\ state # "Stopped" => worker.eof_signal /\ worker.pc = "done"

\* C3 witness: is_track_finished() has returned true in the second track of the
\* run, after the callback played every sample the worker wrote.
C3_Witness ==
    /\ Returned("is_track_finished")
    /\ ctl.ret = "true"
    /\ state = "Playing"
    /\ plays = MaxPlays
    /\ stats.samples_played > 0
    /\ stats.samples_played = decoder_state.samples_decoded

\* What Engine.stop leaves behind.
Stopped ==
    /\ worker.pc = "none" /\ ~decoder_thread
    /\ ~output.some /\ ~device_on /\ ~ctx.alive /\ cb.pc = "idle"
    /\ write_pos = read_pos
    /\ ~decoder_state.running /\ ~decoder_state.paused
    /\ state = "Stopped"

\* C4: when Engine.stop returns Ok (called directly, or by play on an engine that
\* is not Stopped) the worker has been joined, the engine holds no AudioOutput
\* and the device is off, the ring is empty, running and paused are false and the
\* state is Stopped. Until the join has returned the output has not been
\* stopped; the output is stopped only with the worker joined; and the ring is
\* cleared only with the worker joined and the output gone.
C4_StopPostcondition ==
    /\ Returned("stop") /\ ctl.ret = "Ok" => Stopped
    /\ ctl.pc = "play_open" => Stopped
    /\ ctl.pc \in {"stop_running", "stop_paused", "stop_unpark", "stop_join"} /\ output.some
          => ctx.alive /\ ctx.running
    /\ ctl.pc \in {"stop_output", "stop_device", "stop_drop", "stop_clear"}
          => worker.pc = "none" /\ ~decoder_thread
    /\ ctl.pc = "stop_clear" => ~output.some /\ ~device_on /\ ~ctx.alive /\ cb.pc = "idle"

\* C4 witness: stop has returned Ok after a track that the worker had decoded
\* further than the callback had played: the ring held samples when stop began.
C4_Witness ==
    /\ Returned("stop")
    /\ ctl.ret = "Ok"
    /\ write_pos > 0
    /\ stats.samples_played < decoder_state.samples_decoded

\* C5: Engine.stop always terminates: once stop has begun (it is about to store
\* running = false), whatever the worker is doing -- parked, about to park,
\* backing off, decoding, writing, or already exited -- the join returns and
\* stop runs to its end.
C5_StopTerminates ==
    (ctl.pc = "stop_running") ~> (ctl.pc \in {"return", "play_open"})

\* C5 witness: stop waits in join for a worker that is parked in the pause loop
\* and has the token of stop's unpark.
C5_Witness ==
    /\ ctl.pc = "stop_join"
    /\ worker.pc = "park"
    /\ park_token
    /\ ~decoder_state.running

\* C6: a successful play leaves the engine Buffering, and a state() call made on
\* the Buffering engine while the ring fill ratio is >= prebuffer_ratio at every
\* moment of the call returns Playing.
C6_StateReadsPlaying ==
    /\ Returned("play") /\ ctl.ret = "Ok" => state = "Buffering"
    /\ Returned("state") /\ state = "Buffering" /\ ~ctl.low => ctl.ret = "Playing"

\* What a callback that ran with running == true has delivered when it returns:
\* asked for n = cb.len samples with k = cb.k in the ring, the first min(n, k)
\* slots carry the ring samples from read_pos on, in order, the rest carry the
\* sample 0, and underrun_count went up by one if k < n and not at all otherwise.
CallbackDelivered ==
    LET n == cb.len
        m == Min(cb.len, cb.k)
    IN  /\ Len(cb.out) = n
        /\ cb.to_read = m
        /\ \A j \in 1..m : cb.out[j].written /\ cb.out[j].sample = cb.read + j
        /\ \A j \in (m + 1)..n : cb.out[j].written /\ cb.out[j].sample = 0
        /\ stats.underrun_count = cb.underruns_before + (IF cb.k < n THEN 1 ELSE 0)

\* A callback in progress has a step to take whatever the producer does.
CallbackNeverWaits ==
    cb.pc \in {"copy", "stats", "underrun", "return"} => ENABLED CallbackStep

\* C7 as stated: a callback that ran with running == true delivers min(n, k) ring
\* samples followed by zeros -- in every output mode the slots of the shortfall
\* hold exactly zero -- with one underrun recorded if and only if k < n.
C7_ShortfallIsZeros ==
    cb.pc = "return" /\ cb.ran =>
        /\ CallbackDelivered
        /\ \A j \in (Min(cb.len, cb.k) + 1)..cb.len : cb.out[j].dither = 0

\* C7 amended: a callback that ran with running == true delivers min(n, k) ring
\* samples followed by converted zero samples, with one underrun recorded if and
\* only if k < n; the slots of the shortfall are exactly zero in the modes that
\* add no dither (Int32, and Int24 with source_bits <= 24) and carry the dither
\* term otherwise. The callback never waits for the producer, and underrun_count
\* never decreases while no play call resets it.
C7_CallbackDelivery ==
    /\ [](cb.pc = "return" /\ cb.ran =>
            /\ CallbackDelivered
            /\ ~AddsDither(ctx) =>
                  \A j \in (Min(cb.len, cb.k) + 1)..cb.len : cb.out[j].dither = 0)
    /\ []CallbackNeverWaits
    /\ [][stats'.underrun_count >= stats.underrun_count]_vars

\* C7 witness: a Float32 callback asked for more than the ring held, delivered
\* the ring samples it found, and returns a shortfall slot that is not zero.
C7_Witness ==
    /\ cb.pc = "return" /\ cb.ran
    /\ ctx.output_mode = "Float32"
    /\ 0 < cb.k /\ cb.k < cb.len
    /\ cb.out[cb.len].sample = 0 /\ cb.out[cb.len].dither # 0
    /\ stats.underrun_count = 1

\* C8 as stated: while the engine is paused -- from the return of the pausing
\* toggle_pause to the start of the next play, stop or toggle_pause -- the worker
\* makes no ring write and no samples_decoded update.
C8_NoDecodingWhilePaused ==
    InPauseWindow => ctl.moves = 0 /\ ctl.counts = 0

\* C8 amended: while the engine is paused the worker begins no new decode: it
\* finishes at most the one loop iteration that was already past its pause check
\* when toggle_pause stored the paused flag, so write_pos changes at most once
\* and samples_decoded at most once after the pausing call has returned, and
\* neither changes again once the worker has come back to its pause check.
C8_AtMostOneIterationWhilePaused ==
    /\ [](InPauseWindow => ctl.moves <= 1 /\ ctl.counts <= 1)
    /\ [][InPauseWindow /\ worker.pc \in {"pause_check", "park"}
            => /\ write_pos' = write_pos
               /\ decoder_state'.samples_decoded = decoder_state.samples_decoded
               /\ worker'.pc \in {"pause_check", "park"}]_vars

\* C8 witness: the engine is paused, the worker is parked, and since the pausing
\* call returned it has written to the ring and added to samples_decoded once.
C8_Witness ==
    /\ InPauseWindow
    /\ worker.pc = "park"
    /\ ctl.moves = 1 /\ ctl.counts = 1

\* A play, stop or toggle_pause is in progress or has taken the engine out of
\* playback, or the device is not invoking the callback.
Interfered ==
    \/ state \in {"Paused", "Stopped"}
    \/ ctl.pc \notin {"idle", "return"}
    \/ ~device_on

\* C9: if the decode path hands the worker its end-of-file signal while the
\* engine is neither paused nor stopped and the callback keeps being invoked,
\* then eof_reached gets set and the ring drains: is_track_finished() becomes
\* true, unless the control thread pauses, stops or restarts the engine first.
C9_TrackEventuallyFinished ==
    (worker.pc = "set_eof" /\ ~Interfered) ~> (TrackFinished \/ Interfered)

\* C9 witness: eof_reached is set during playback while the ring still holds
\* samples the callback has to drain.
C9_Witness ==
    /\ decoder_state.eof_reached
    /\ worker.pc = "done"
    /\ ~Interfered
    /\ write_pos > read_pos
    /\ stats.samples_played > 0

\* C10: after a successful toggle_pause the state is Paused or Playing, and it is
\* Paused exactly when the decoder paused flag is true and the AudioOutput is
\* paused. A call that found the engine Playing has set the flag, paused the
\* output (the device is off) and left the state Paused; a call that found it
\* Paused has resumed the output (the device is on), cleared the flag and left
\* the state Playing, with a token for a worker that is still parked.
C10_TogglePauseAlternates ==
    Returned("toggle_pause") /\ ctl.ret = "Ok" =>
        /\ state \in {"Playing", "Paused"}
        /\ state = "Paused" <=> decoder_state.paused /\ output.paused
        /\ ctl.snap = "Playing" =>
              state = "Paused" /\ decoder_state.paused /\ output.paused /\ ~device_on
        /\ ctl.snap = "Paused" =>
              /\ state = "Playing" /\ ~decoder_state.paused /\ ~output.paused /\ device_on
              /\ worker.pc = "park" => park_token

\* C10 witness: a toggle_pause that found the engine Paused has returned Ok while
\* the worker is still parked, holding the token of the unpark.
C10_Witness ==
    /\ Returned("toggle_pause") /\ ctl.ret = "Ok"
    /\ ctl.snap = "Paused"
    /\ worker.pc = "park" /\ park_token

\* C11: the engine leaves Buffering for Playing only when the ring fill ratio is
\* >= prebuffer_ratio: a step of a toggle_pause call that takes the state of a
\* Buffering engine to another state is taken with the ring filled to the ratio.
C11_LeavesBufferingOnlyWhenFilled ==
    [][state = "Buffering" /\ state' # "Buffering" /\ ctl.op = "toggle_pause"
          => ReachedPrebuffer(Available(write_pos, read_pos))]_vars

\* C12: toggle_pause called on an engine whose state is Stopped returns
\* Err(InvalidState) and changes nothing: no step of the call changes the engine
\* state, the decoder flags, the ring, the output handle, the worker handle or
\* the device, and the call is never past its match with the state Stopped.
C12_TogglePauseWhenStopped ==
    /\ [][/\ state = "Stopped"
          /\ \/ ctl.pc = "idle" /\ ctl'.op = "toggle_pause"
             \/ ctl.pc = "tp_match"
          => /\ UNCHANGED <<state, decoder_state, ringVars, output, decoder_thread,
                            stats, workerVars, renderVars>>
             /\ ctl.pc = "idle" => ctl'.pc = "tp_match"
             /\ ctl.pc = "tp_match" => ctl'.pc = "return" /\ ctl'.ret = "Err"]_vars
    /\ [](ctl.pc \in {"tp_load_write", "tp_load_read", "tp_pause_output", "tp_pause_state",
                      "tp_resume_output", "tp_resume_flag", "tp_unpark"}
            => state # "Stopped")

\* C12 witness: toggle_pause has returned Err on an engine that was stopped after
\* a track reached its end: eof_reached is still set and the ring counters have
\* moved.
C12_Witness ==
    /\ Returned("toggle_pause") /\ ctl.ret = "Err"
    /\ state = "Stopped"
    /\ decoder_state.eof_reached
    /\ write_pos > 0

\* C13: whenever Engine.play returns an error -- the decoder open, the creation
\* of the AudioOutput or its start failed -- the engine state is Stopped, no
\* worker thread is alive, the engine holds no AudioOutput, and the output made
\* for the failed attempt has been stopped: the device is off and no callback is
\* in flight, hog mode is released and the callback context is dropped. This
\* covers play called on a Playing, Buffering or Paused engine.
C13_PlayErrorTearsDown ==
    Returned("play") /\ ctl.ret \in {"DecodeError", "OutputError"} =>
        /\ state = "Stopped"
        /\ worker.pc = "none" /\ ~decoder_thread
        /\ ~output.some
        /\ ~ctx.alive /\ ~ctx.running /\ ~ctx.hog
        /\ ~device_on /\ cb.pc = "idle"

\* C13 witness: the second play of the run, made while the first track was being
\* played, has returned the error of a failed AudioOutput.start: the ring had
\* been written to and play had already reset the statistics.
C13_Witness ==
    /\ Returned("play") /\ ctl.ret = "OutputError"
    /\ plays = MaxPlays
    /\ write_pos > 0
    /\ decoder_state.samples_decoded > 0
    /\ stats = StatsNew

\* C14: write(data) returns min(len(data), capacity - used) and stores exactly
\* that many leading elements of data behind the elements already stored;
\* read(out) returns min(len(out), used), hands out the oldest elements in order
\* and removes exactly that many. used is write_pos - read_pos at the moment the
\* call loads the other side's counter. write on a full buffer and read on an
\* empty buffer return 0 and leave write_pos, read_pos and the elements as they are.
C14_WriteReadCounts ==
    /\ [](prod.pc \in {"copy_first", "copy_second", "store"} =>
            /\ prod.write = write_pos
            /\ prod.to_write = Min(Len(prod.data), capacity - (prod.write - prod.read))
            /\ prod.to_write > 0)
    /\ [](cons.pc \in {"copy_first", "copy_second", "store"} =>
            /\ cons.read = read_pos
            /\ cons.to_read = Min(cons.len, cons.write - cons.read)
            /\ cons.to_read > 0)
    /\ [][prod.pc = "store" /\ prod'.pc = "idle" =>
            /\ prod'.ret = prod.to_write
            /\ write_pos' = write_pos + prod.to_write
            /\ read_pos' = read_pos
            /\ \A j \in 1..prod.to_write :
                  buffer'[(write_pos + j - 1) % capacity] = prod.data[j]
            /\ \A i \in read_pos..(write_pos - 1) :
                  buffer'[i % capacity] = buffer[i % capacity]]_vars
    /\ [][cons.pc = "store" /\ cons'.pc = "idle" =>
            /\ cons'.ret = cons.to_read
            /\ read_pos' = read_pos + cons.to_read
            /\ write_pos' = write_pos /\ buffer' = buffer
            /\ delivered' = delivered \o [j \in 1..cons.to_read |-> read_pos + j]]_vars
    /\ [][prod.pc = "load_read" /\ prod'.pc = "idle" =>
            /\ write_pos - read_pos = capacity
            /\ prod'.ret = 0
            /\ UNCHANGED <<ringVars, accepted>>]_vars
    /\ [][cons.pc = "load_write" /\ cons'.pc = "idle" =>
            /\ write_pos = read_pos
            /\ cons'.ret = 0
            /\ UNCHANGED <<ringVars, delivered>>]_vars

\* C14 witness: a read that asked for more than the ring held has returned the
\* smaller count, and a later write on the full ring has returned 0.
C14_Witness ==
    /\ cons.pc = "idle" /\ 0 < cons.ret /\ cons.ret < cons.len
    /\ prod.pc = "idle" /\ prod.data # <<>> /\ prod.ret = 0
    /\ write_pos - read_pos = capacity
    /\ capacity >= 2

\* The steps a call of write or read has left at most, by its position; `first`
\* is the load the call begins with.
StepsLeft(pc, first) ==
    CASE pc = first -> 5
      [] pc \in {"load_write", "load_read"} -> 4
      [] pc = "copy_first" -> 3
      [] pc = "copy_second" -> 2
      [] pc = "store" -> 1
      [] OTHER -> 0
ProdStep == PLoadWrite \/ PLoadRead \/ PCopyFirst \/ PCopySecond \/ PStore
ConsStep == CLoadRead \/ CLoadWrite \/ CCopyFirst \/ CCopySecond \/ CStore

\* C15: write and read are wait-free. A call in progress always has a step it
\* can take, whatever the position and the progress of the other thread, and
\* each of its steps brings it nearer to its return: no step goes back to an
\* earlier position, so a call returns after at most five steps of its own.
C15_WaitFree ==
    /\ [](prod.pc # "idle" => ENABLED ProdStep)
    /\ [](cons.pc # "idle" => ENABLED ConsStep)
    /\ [][prod.pc # "idle" /\ prod' # prod =>
            StepsLeft(prod'.pc, "load_write") < StepsLeft(prod.pc, "load_write")]_vars
    /\ [][cons.pc # "idle" /\ cons' # cons =>
            StepsLeft(cons'.pc, "load_read") < StepsLeft(cons.pc, "load_read")]_vars

\* C15 witness: write has returned (0, the ring being full) while the consumer
\* stands still in the middle of a read.
C15_Witness ==
    /\ prod.pc = "idle" /\ prod.data # <<>> /\ prod.ret = 0
    /\ cons.pc = "copy_first"
    /\ write_pos - read_pos = capacity

\* C16: in Int32 output mode the callback puts into the device buffer exactly
\* the samples the worker wrote to the ring, in their order and unchanged -- no
\* dither, no scaling: the slots a callback fills from the ring hold, one after
\* the other, the next samples of the track as the decoder made them, and for a
\* 16-bit source the i-th sample s of the file arrives as s << 16 = s * 2^16.
C16_Int32BitPerfect ==
    cb.pc = "return" /\ cb.ran /\ ctx.output_mode = "Int32" =>
        \A j \in 1..cb.to_read :
            LET i == stats.samples_played - cb.to_read + j
            IN  /\ cb.out[j] = Converted("Int32", ConvertToI32(ctx.source_bits,
                                                  SourceSample(ctx.source_bits, i)), 0)
                /\ ctx.source_bits = 16 =>
                      cb.out[j].sample = SourceSample(16, i) * 65536

\* C16 witness: an Int32 callback of a 16-bit track returns a buffer whose last
\* slot filled from the ring holds the second sample of the file, the most
\* negative 16-bit value, as -32768 << 16.
C16_Witness ==
    /\ cb.pc = "return" /\ cb.ran
    /\ ctx.output_mode = "Int32" /\ ctx.source_bits = 16
    /\ cb.to_read >= 1
    /\ stats.samples_played = 2
    /\ cb.out[cb.to_read].sample = (-32768) * 65536
    /\ cb.out[cb.to_read].dither = 0

\* C17: in a playback where the worker is never behind (SpecAhead), from the
\* return of play until is_track_finished() first becomes true -- the engine is
\* not Stopped, no stop is in progress and the finished predicate does not hold
\* yet -- underrun_count is 0.
C17_NoUnderrunWhenAhead ==
    state # "Stopped" /\ ctl.pc \notin StopPcs /\ ~TrackFinished
        => stats.underrun_count = 0

\* C18: for a track that plays to its end without pause or stop (the state is
\* still Buffering and no play, stop or toggle_pause is in progress), at every
\* moment at which the finished predicate holds samples_played equals the number
\* of samples the decoder produced for the track.
C18_PlayedAllWhenFinished ==
    state = "Buffering" /\ ctl.pc \in QuietPcs /\ TrackFinished
        => stats.samples_played = iter.decoder.next - 1

\* The count the worker hands to read_i32, and the samples of the stream that
\* were not yet returned before the call the worker has just made.
ReadCount == Min(worker.available_write, ReadChunkSize(worker.channels))
RestBeforeRead ==
    Len(worker.samples) + DbAvailable(iter.double_buffer) + iter.decoder.remaining

\* C19 as stated: read_i32(n) with n > 0 returns exactly n samples whenever the
\* rest of the stream (buffered plus still to be decoded) holds at least n, and
\* returns fewer than n only when the end of the file has been reached.
C19_ReadReturnsExactlyN ==
    worker.pc \in {"write_load", "set_eof"} =>
        /\ RestBeforeRead >= ReadCount => Len(worker.samples) = ReadCount
        /\ Len(worker.samples) < ReadCount => iter.decoder.remaining = 0

\* C19 amended: read_i32(n) with n > 0 returns at most n samples, the next
\* samples of the stream in order, and loses none. With b samples buffered it
\* returns exactly n without decoding if b >= n; otherwise it decodes one packet
\* (of d samples) and returns min(n, b + d) -- fewer than n whenever the
\* buffered samples and that one packet together are fewer than n, in the
\* middle of the stream too; if decode_next_i32 returned the empty slice it
\* returns the b buffered samples.
C19_ReadReturnsUpToN ==
    [][worker.pc = "decode" /\ worker'.pc \in {"write_load", "set_eof"} =>
         LET n == ReadCount
             b == DbAvailable(iter.double_buffer)
             d == iter'.decoder.next - iter.decoder.next
             got == Len(worker'.samples)
             first == iter.decoder.next - b
         IN  /\ n > 0 /\ got <= n
             /\ b >= n => got = n /\ d = 0
             /\ b < n => got = Min(n, b + d)
             /\ \A j \in 1..got :
                   worker'.samples[j] =
                       ConvertToI32(iter.decoder.bits,
                                    SourceSample(iter.decoder.bits, first + j - 1))
             /\ DbAvailable(iter'.double_buffer) = b + d - got
             /\ iter'.decoder.remaining = iter.decoder.remaining - d
             /\ worker'.pc = "set_eof" <=> got = 0]_vars

\* C19 witness: read_i32 was asked for two samples with two left in the file,
\* decoded a packet of one and returned one.
C19_Witness ==
    /\ worker.pc = "write_load"
    /\ ReadCount = 2
    /\ Len(worker.samples) = 1
    /\ iter.decoder.remaining = 1
    /\ DbAvailable(iter.double_buffer) = 0

\* The supported rates of the 44.1 kHz or 48 kHz family of `requested` that
\* divide it by an integer.
DividingRates(requested, sup) ==
    {r \in sup : \E base \in {44100, 48000} :
                    requested % base = 0 /\ r % base = 0 /\ requested % r = 0}

\* C20: select_optimal_sample_rate(requested, supported) with non-empty
\* supported returns a member of supported: the requested rate if it is
\* supported; else a supported rate of the same family that divides requested
\* by an integer, if there is one; else the nearest supported rate. With
\* supported = {44100, 48000, 96000}: 96000 gives 96000, 88200 gives 44100,
\* 44100 gives 44100, 192000 gives 96000.
C20_SelectByPriority ==
    rate.pc = "done" =>
        LET req == rate.requested
            sup == {rate.supported[i] : i \in 1..Len(rate.supported)}
            sel == rate.selected
        IN  /\ sel \in sup
            /\ IF req \in sup THEN sel = req
               ELSE IF DividingRates(req, sup) # {} THEN sel \in DividingRates(req, sup)
               ELSE \A r \in sup : Abs(sel - req) <= Abs(r - req)
            /\ rate.supported = <<44100, 48000, 96000>> =>
                  /\ req = 96000 => sel = 96000
                  /\ req = 88200 => sel = 44100
                  /\ req = 44100 => sel = 44100
                  /\ req = 192000 => sel = 96000

\* The depth, in bits, an output mode carries without loss: an i32, three
\* packed bytes, the 24-bit significand of an f32.
OutputDepth(mode) ==
    CASE mode = "Int32" -> 32
      [] mode = "Int24" -> 24
      [] mode = "Float32" -> 24

\* C21: the render callback adds dither noise to a sample only when the output
\* depth is strictly less than the source bit depth; in every output mode that
\* can carry the source depth, the delivered value is the conversion of the
\* ring sample with no noise term added.
C21_DitherOnlyWhenReducing ==
    cb.pc = "return" /\ cb.ran =>
        \A j \in 1..Len(cb.out) :
            cb.out[j].dither # 0 => OutputDepth(ctx.output_mode) < ctx.source_bits

\* C22: a render callback invoked while the context's running flag is false
\* fills the whole output buffer with zeros and returns without reading from
\* the ring buffer and without changing a statistics counter, on both entry
\* points (AudioUnit render callback and HAL IOProc).
C22_NotRunningFillsSilence ==
    [][(cb.pc = "idle" /\ cb'.pc # "idle" /\ ~ctx.running) =>
          /\ cb'.pc = "return"
          /\ Len(cb'.out) = cb'.len
          /\ \A j \in 1..cb'.len :
                cb'.out[j].written /\ cb'.out[j].sample = 0 /\ cb'.out[j].dither = 0
          /\ read_pos' = read_pos
          /\ stats' = stats]_vars

\* C23: for every bits-per-sample in {16, 24, 32} and every sample value of that
\* depth, samples_to_bytes(bytes_to_samples(b)) = b for its little-endian bytes
\* b, and bytes_to_samples preserves the sign: the bytes 00 00 80 decode to
\* (-0x800000) << 8 and FF FF FF decode to (-1) << 8.
C23_BytesRoundTrip ==
    /\ codec.pc = "encoded" => codec.back = codec.bytes
    /\ codec.pc \in {"decoded", "encoded"} =>
          /\ codec.sample < 0 <=> codec.bytes[Len(codec.bytes)] >= 128
          /\ codec.bytes = <<0, 0, 128>> => codec.sample = (-8388608) * 256
          /\ codec.bytes = <<255, 255, 255>> => codec.sample = (-1) * 256

\* C23 witness: the most negative 24-bit sample has gone through both
\* conversions and came back as its bytes.
C23_Witness ==
    /\ codec.pc = "encoded"
    /\ codec.bytes = <<0, 0, 128>>
    /\ codec.sample = (-8388608) * 256
    /\ codec.back = <<0, 0, 128>>

\* The round-trip error of a finished conversion, in nanoseconds.
RoundTripError == Abs(clock.recovered - clock.ns)

\* C24 as stated: |mach_ticks_to_ns(ns_to_mach_ticks(n)) - n| is at most the
\* duration of one tick in nanoseconds, numer / denom.
C24_RoundTripWithinOneTick ==
    clock.pc = "done" => RoundTripError * clock.info.denom <= clock.info.numer

\* C24 amended: the recovered value is never later than n, and the error is
\* less than the duration of one tick plus one nanosecond, that is at most
\* numer / denom rounded up to a whole nanosecond.
C24_RoundTripWithinTickRoundedUp ==
    clock.pc = "done" =>
        /\ clock.recovered <= clock.ns
        /\ RoundTripError * clock.info.denom < clock.info.numer + clock.info.denom

\* C24 witness: on the 125/3 timebase 83 ns become one tick and come back as
\* 41 ns, 42 ns off, more than the 41.67 ns of a tick.
C24_Witness ==
    /\ clock.pc = "done"
    /\ clock.info = [numer |-> 125, denom |-> 3]
    /\ clock.ns = 83 /\ clock.ticks = 1 /\ clock.recovered = 41

\* The samples the adapter has returned to the worker since play: those the
\* decoder has produced less those still held in the double buffer.
AdapterReturned == (iter.decoder.next - 1) - DbAvailable(iter.double_buffer)

InPauseLoop == worker.pc \in {"pause_check", "park"}

\* C26: a resume is never lost. However the control thread's steps in
\* toggle_pause or stop (store paused = false, then unpark) interleave with the
\* worker's (load paused, then park), the worker eventually leaves the pause
\* loop; an unpark that happens before the worker parks makes that park return
\* at once; and a park that returns on a token consumes it, so a stale token
\* costs one extra pass through the loop and no busy loop.
C26_ResumeNeverLost ==
    /\ (InPauseLoop /\ ~decoder_state.paused) ~> (~InPauseLoop \/ decoder_state.paused)
    /\ [](worker.pc = "park" /\ park_token => ENABLED WorkerPark)
    /\ [][worker.pc = "park" /\ park_token /\ worker'.pc # "park" => ~park_token']_vars
    /\ [](worker.pc = "park" /\ ~park_token => ~ENABLED WorkerPark)

\* C26 witness: the control thread has stored paused = false and is about to
\* unpark, and the worker, which loaded paused = true before that store, is
\* inside park without a token.
C26_Witness ==
    /\ ctl.pc = "tp_unpark"
    /\ ~decoder_state.paused
    /\ worker.pc = "park"
    /\ ~park_token

\* Neither side of the ring can act: no worker thread exists, the device is not
\* started, no callback context exists and no callback is in flight.
Quiescent ==
    /\ ~decoder_thread /\ worker.pc = "none"
    /\ ~device_on /\ ~ctx.alive /\ cb.pc = "idle"

\* C27: every ring_buffer.clear() the Engine makes (in play, before
\* output.start; in stop, after the join and the output's stop) happens while
\* no decoder worker of the engine is alive and no render callback is armed.
C27_ClearOnlyWhenQuiescent ==
    ctl.pc \in {"play_clear", "stop_clear"} => Quiescent

\* C27 witness: play was called during playback; its stop has joined the worker
\* and stopped the output, and is about to clear a ring that still holds samples.
C27_Witness ==
    /\ ctl.pc = "stop_clear"
    /\ ctl.caller = "play"
    /\ write_pos # read_pos
    /\ stats.samples_played > 0
    /\ Quiescent

\* C28: across every sequence of play, toggle_pause and stop calls (play on a
\* Buffering, Playing or Paused engine and failing play calls included) at most
\* one decoder worker and at most one started AudioOutput exist per Engine: play
\* creates its output and spawns its worker only when none is left, and the one
\* worker and the one started output are those the Engine's handles name.
C28_OneWorkerOneOutput ==
    /\ ctl.pc \in {"play_open", "play_clear", "play_start"} => Quiescent /\ ~output.some
    /\ ctl.pc = "play_spawn" => ~decoder_thread /\ worker.pc = "none" /\ ~output.some
    /\ decoder_thread <=> worker.pc # "none"
    /\ (device_on \/ ctx.alive \/ cb.pc # "idle") =>
          output.some \/ ctl.pc \in {"play_spawn", "stop_drop"}

\* C28 witness: the second play of the run has started its output and is about
\* to spawn its worker; the first track's worker, which wrote samples, is gone.
C28_Witness ==
    /\ ctl.pc = "play_spawn"
    /\ plays = MaxPlays
    /\ write_pos > 0
    /\ device_on /\ ctx.alive
    /\ ~decoder_thread /\ worker.pc = "none"

\* C29: the decoder worker leaves its loop only because stop cleared running or
\* after it has set eof_reached: whenever the worker has terminated while
\* running is still true, eof_reached is true (so that a track whose worker
\* ends on its own, after a decoder error included, is reported by
\* is_track_finished() once the ring drains).
C29_WorkerEndsOnlyAtEofOrStop ==
    worker.pc = "done" /\ decoder_state.running => decoder_state.eof_reached

\* C30: is_track_finished() is false whenever the engine state is Stopped: after
\* stop() (and after a play that failed) the eof_reached flag left by the
\* previous track does not make the predicate true.
C30_NotFinishedWhenStopped ==
    Returned("is_track_finished") /\ state = "Stopped" => ctl.ret = "false"

(***************************************************************************)
(* SpecWait: a caller that plays a file and then polls state(), as         *)
(* play_single_file_with_running does while it waits for the prebuffer     *)
(* (main.rs: while engine.state() == PlaybackState::Buffering { sleep }).  *)
(* The caller makes play and state calls only (a play on an engine that    *)
(* is not Stopped stops it first); the worker and the callback run, every  *)
(* thread that can take a step eventually takes one, and a caller that is  *)
(* free to poll eventually polls.                                          *)
(***************************************************************************)
SpecWait ==
    /\ Init
    /\ [][\/ CallPlay \/ CallState \/ Return
          \/ StopRunning \/ StopPaused \/ StopUnpark \/ StopJoin \/ StopOutput \/ StopDevice
          \/ StopDrop \/ StopClear \/ PlayOpen \/ PlayClear \/ PlayStart \/ PlaySpawn
          \/ StLoadWrite \/ StLoadRead
          \/ WorkerLoop \/ WorkerPauseCheck \/ WorkerFreeSpace
          \/ WorkerBackoff \/ WorkerDecode \/ WorkerSetEof \/ WorkerWriteLoad
          \/ WorkerWriteCommit \/ WorkerCount \/ WorkerPrebuffer
          \/ CbInvoke \/ CbCopy \/ CbStats \/ CbUnderrun \/ CbDone]_vars
    /\ Fairness
    /\ WF_vars(CallState)

\* C31: within one track (between one play call and the next) state() never
\* returns Buffering after it has returned Playing, whatever the ring fill does.
C31_PlayingNeverBackToBuffering ==
    \A p \in 1..MaxPlays :
       [](Returned("state") /\ ctl.ret = "Playing" /\ plays = p
            => [](Returned("state") /\ ctl.ret = "Buffering" => plays # p))

\* C32: after a successful play, unless the caller makes a new play call, a
\* state() call eventually returns a value other than Buffering.
C32_WaitGetsPastBuffering ==
    \A p \in 1..MaxPlays :
       [](Returned("play") /\ ctl.ret = "Ok" /\ plays = p
            => <>((Returned("state") /\ ctl.ret # "Buffering") \/ plays # p))

(***************************************************************************)
(* SpecBackoff: the worker and the render callback of an engine after one  *)
(* play, for every ring capacity Engine::new can build from buffer_frames  *)
(* in 1..MaxBufferFrames and for tracks of one and of BackoffChannels      *)
(* channels. No other control call is made; both threads are scheduled     *)
(* fairly.                                                                 *)
(***************************************************************************)
\* Channels of a track in SpecBackoff.
BackoffChannels == 2

SpecBackoff ==
    /\ InitRing
       \* play, as one step: the track is opened, the output started and the worker
       \* spawned (Engine::play on a Stopped engine, every call succeeding)
    /\ [][\/ /\ state = "Stopped" /\ plays = 0
             /\ \E frames \in 1..MaxTrackFrames, ch \in {1, BackoffChannels},
                   f \in EngineFormats :
                   /\ iter' = IterNew(DecoderOpen(frames, ch, f.source_bits))
                   /\ worker' = WorkerStart(ch)
                   /\ ctx' = [alive |-> TRUE, running |-> TRUE,
                              output_mode |-> f.output_mode,
                              source_bits |-> f.source_bits, channels |-> ch,
                              backend |-> f.backend, hog |-> TRUE]
             /\ decoder_state' = DecoderStateAtPlay(decoder_state)
             /\ output' = [some |-> TRUE, paused |-> FALSE]
             /\ decoder_thread' = TRUE
             /\ device_on' = TRUE
             /\ state' = "Buffering"
             /\ plays' = 1
             /\ UNCHANGED <<ringVars, ctl, stats, park_token, cb, outsideEngine>>
          \/ WorkerLoop \/ WorkerPauseCheck \/ WorkerFreeSpace \/ WorkerBackoff
          \/ WorkerDecode \/ WorkerSetEof \/ WorkerWriteLoad \/ WorkerWriteCommit
          \/ WorkerCount \/ WorkerPrebuffer
          \/ CbInvoke \/ CbCopy \/ CbStats \/ CbUnderrun \/ CbDone]_vars
    /\ WF_vars(WorkerStep) /\ WF_vars(CallbackStep)

\* C33: for every ring capacity and channel count, a worker that is running and
\* not paused while the ring is empty and the decoder still has data eventually
\* writes samples into the ring (or ends, on a decoder error or an empty read):
\* it does not take the back-off branch for ever.
C33_WorkerEventuallyWrites ==
    []((/\ worker.pc \in {"loop", "pause_check", "free_space", "backoff"}
        /\ decoder_state.running /\ ~decoder_state.paused
        /\ write_pos = read_pos
        /\ iter.decoder.remaining > 0)
       => <>(worker.pc \in {"count", "done"}))

\* C34: the value available() returns to the control thread (in state(),
\* toggle_pause() and is_track_finished()) lies in 0..capacity, so that
\* fill_ratio() lies in [0, 1]: whenever the control thread has loaded write_pos
\* and is about to load read_pos, the difference it will compute is at most
\* capacity, whatever the producer and the consumer did between the two loads.
C34_AvailableWithinCapacity ==
    ctl.pc \in {"st_load_read", "tp_load_read", "itf_load_read"}
        => Available(ctl.write, read_pos) \in 0..capacity

\* C35: a toggle_pause that returns an error leaves the engine as it was: in
\* particular it never returns Err with the decoder's paused flag set while the
\* engine state is Playing (the worker parked, the engine not Paused).
C35_FailedToggleLeavesEngineAsBefore ==
    Returned("toggle_pause") /\ ctl.ret = "Err"
        => ~(state = "Playing" /\ decoder_state.paused)

(***************************************************************************)
(* SpecOutput: one AudioOutput (either backend) whose start, pause, resume *)
(* and stop are called in any order, while the device invokes the callback *)
(* and a producer fills the ring. `output` carries the fields of the       *)
(* AudioOutput: paused; handle -- io_proc_id is non-null (HalIOProc), the  *)
(* audio unit is initialized (AudioUnit); and the history flag stale -- a  *)
(* callback registered or running with a context that has been dropped.    *)
(***************************************************************************)
\* pub fn start(&mut self, format, ring_buffer, stats): no check that the output
\* is already started. Err before the context is created changes nothing. Else
\* self.context = Some(new) drops the context of an earlier start: on HalIOProc
\* the IOProc of the earlier start stays registered and started with the dropped
\* context (io_proc_id is overwritten), on AudioUnit the render callback is
\* re-pointed and only a callback in flight still holds the dropped one. Then
\* AudioDeviceStart / AudioUnitInitialize + AudioOutputUnitStart succeed, or
\* fail (HalIOProc: the new IOProc is destroyed, io_proc_id = null).
OutStart ==
    /\ output.some
    /\ \/ UNCHANGED <<output, ctx, device_on>>
       \/ /\ ctx' = [ctx EXCEPT !.alive = TRUE, !.running = TRUE]
          /\ LET dropped == /\ ctx.alive /\ device_on
                            /\ ctx.backend = "HalIOProc" \/ cb.pc # "idle"
             IN  \/ /\ output' = [output EXCEPT !.handle = TRUE, !.stale = @ \/ dropped]
                    /\ device_on' = TRUE
                 \/ /\ \E h \in IF ctx.backend = "HalIOProc" THEN {FALSE}
                                ELSE {output.handle, TRUE} :
                          output' = [output EXCEPT !.handle = h, !.stale = @ \/ dropped]
                    /\ device_on' = device_on
    /\ UNCHANGED <<ringVars, state, decoder_thread, ctl, plays, decoder_state, stats,
                   workerVars, cb, outsideEngine>>

\* pub fn pause(&mut self): Ok at once if paused or io_proc_id is null; else
\* AudioDeviceStop / AudioOutputUnitStop, Err on a bad status, else paused = true.
\* The device stop returns once no callback is in flight.
OutPause ==
    /\ output.some
    /\ \/ UNCHANGED <<output, device_on>>
       \/ /\ ~output.paused
          /\ ctx.backend = "HalIOProc" => output.handle
          /\ cb.pc = "idle"
          /\ device_on' = (device_on /\ output.stale /\ ctx.backend = "HalIOProc")
          /\ output' = [output EXCEPT !.paused = TRUE]
    /\ UNCHANGED <<ringVars, state, decoder_thread, ctl, plays, decoder_state, stats,
                   workerVars, ctx, cb, outsideEngine>>

\* pub fn resume(&mut self): Ok at once if not paused or io_proc_id is null; else
\* AudioDeviceStart / AudioOutputUnitStart (which refuses a unit that is not
\* initialized), Err on a bad status, else paused = false.
OutResume ==
    /\ output.some
    /\ \/ UNCHANGED <<output, device_on>>
       \/ /\ output.paused
          /\ output.handle
          /\ device_on' = TRUE
          /\ output' = [output EXCEPT !.paused = FALSE]
    /\ UNCHANGED <<ringVars, state, decoder_thread, ctl, plays, decoder_state, stats,
                   workerVars, ctx, cb, outsideEngine>>

\* pub fn stop(&mut self): context.running.store(false); AudioDeviceStop and
\* AudioDeviceDestroyIOProcID of io_proc_id, io_proc_id = null / AudioOutputUnitStop
\* and AudioUnitUninitialize; hog mode released; self.context = None. self.paused
\* is left as it is. An IOProc of an earlier start that was overwritten is not
\* stopped.
OutStop ==
    /\ output.some
    /\ cb.pc = "idle"
    /\ ctx' = [ctx EXCEPT !.alive = FALSE, !.running = FALSE, !.hog = FALSE]
    /\ device_on' = (device_on /\ output.stale /\ ctx.backend = "HalIOProc")
    /\ output' = [output EXCEPT !.handle = FALSE]
    /\ UNCHANGED <<ringVars, state, decoder_thread, ctl, plays, decoder_state, stats,
                   workerVars, cb, outsideEngine>>

\* The output is created by AudioOutput::new; the ring and stats are an engine's.
SpecOutput ==
    /\ InitRing
       \* AudioOutput::new on either backend: not started, not paused
    /\ [][\/ /\ ~output.some
             /\ \E b \in Backends : ctx' = [NoCtx EXCEPT !.backend = b]
             /\ output' = [some |-> TRUE, paused |-> FALSE, handle |-> FALSE,
                           stale |-> FALSE]
             /\ UNCHANGED <<ringVars, state, decoder_thread, ctl, plays, decoder_state,
                            stats, workerVars, device_on, cb, outsideEngine>>
          \/ OutStart \/ OutPause \/ OutResume \/ OutStop
          \/ PCall \/ PLoadWrite \/ PLoadRead \/ PCopyFirst \/ PCopySecond \/ PStore
          \/ CbInvoke \/ CbCopy \/ CbStats \/ CbUnderrun \/ CbDone]_vars

\* C36: in every order of start, pause, resume and stop calls the device is
\* started, and a callback runs, only while the CallbackContext it was registered
\* with is allocated: no context is dropped under a started device, and once stop
\* has dropped the context no pause or resume starts the device again.
C36_DeviceStartedOnlyWithContext ==
    /\ device_on => ctx.alive /\ ~output.stale
    /\ cb.pc # "idle" => ctx.alive /\ ~output.stale
    /\ ~output.some => ~device_on

(***************************************************************************)
(* SpecDecode: a DecoderIterator on a file of up to MaxDecodeFrames        *)
(* frames, read by successive read_i32 calls of any counts; the packets    *)
(* decode_next_i32 returns are of any sizes. `codec` records the last call *)
(* (count, ok, the slice returned, the branch taken) and the history: the  *)
(* concatenation of the slices returned so far and of the packets decoded  *)
(* so far. The files hold 16-bit and 24-bit samples (the conversions that  *)
(* shift).                                                                 *)
(***************************************************************************)
\* Frames of a file and samples asked for by one read_i32 in SpecDecode.
MaxDecodeFrames == 4
MaxReadCount == 3

SpecDecode ==
    /\ Init
       \* AudioDecoder::open(path), DecoderIterator::new(decoder)
    /\ [][\/ /\ codec = NoCall
             /\ \E frames \in 0..MaxDecodeFrames, ch \in 1..MaxChannels,
                   bits \in {16, 24} :
                   iter' = IterNew(DecoderOpen(frames, ch, bits))
             /\ codec' = [pc |-> "read_i32", count |-> 0, ok |-> TRUE, last |-> <<>>,
                          path |-> "none", returned |-> <<>>, decoded |-> <<>>]
             /\ UNCHANGED <<ringVars, freeVars, controlVars, decoder_state, stats,
                            worker, park_token, renderVars, rate, clock>>
          \* pub fn read_i32(&mut self, count): decode_next_i32 is called only if
          \* the buffer holds fewer than count samples
          \/ /\ codec.pc = "read_i32"
             /\ \E count \in 1..MaxReadCount, o \in DecodeNextI32(iter.decoder) :
                   LET called == DbAvailable(iter.double_buffer) < count
                       r == ReadI32(iter, count, o)
                   IN  /\ iter' = r.iter
                       /\ codec' = [codec EXCEPT
                             !.count = count, !.ok = r.ok, !.last = r.samples,
                             !.path = IF ~called THEN "buffered"
                                      ELSE IF o.kind = "err" THEN "err"
                                      ELSE IF o.samples = <<>> THEN "empty"
                                      ELSE IF DbAvailable(iter.double_buffer) = 0
                                      THEN "append"
                                      ELSE "swap_and_append",
                             !.returned = @ \o r.samples,
                             !.decoded = @ \o (IF called THEN o.samples ELSE <<>>)]
             /\ UNCHANGED <<ringVars, freeVars, controlVars, decoder_state, stats,
                            worker, park_token, renderVars, rate, clock>>]_vars

\* The samples a DoubleBuffer still holds: its active buffer from position on.
Buffered(db) == SubSeq(db.buffers[db.active + 1], db.position + 1, db.len)

\* C37: the slices read_i32 has returned, concatenated, followed by the samples
\* still buffered, are the packets decode_next_i32 has returned, concatenated in
\* order: no sample is lost, duplicated or reordered, whatever the counts and
\* packet sizes; and once a read has returned the empty slice at the end of the
\* file, every decoded sample has been returned.
C37_ReadsPreserveStream ==
    codec.pc = "read_i32" =>
        /\ codec.returned \o Buffered(iter.double_buffer) = codec.decoded
        /\ codec.decoded = [i \in 1..Len(codec.decoded) |->
                              ConvertToI32(iter.decoder.bits,
                                           SourceSample(iter.decoder.bits, i))]
        /\ codec.path = "empty" => codec.returned = codec.decoded

\* swap_and_append has carried the rest of a partly consumed buffer over, and the
\* read left part of the merged buffer behind again.
C37_Witness ==
    /\ codec.pc = "read_i32"
    /\ codec.path = "swap_and_append"
    /\ DbAvailable(iter.double_buffer) > 0
    /\ Len(codec.returned) >= 3

\* C38: read_i32(n) with n > 0 returns Ok with an empty slice only at the end of
\* the file: never while the reader still has packets to deliver.
C38_EmptyMeansEndOfFile ==
    codec.pc = "read_i32" /\ codec.count > 0 /\ codec.ok /\ codec.last = <<>>
        => iter.decoder.remaining = 0

\* The supported rates step 2 of select_optimal_sample_rate can return: those of
\* the family whose base `requested` is a multiple of (to within 1 %) that are
\* not above requested.
FamilyCandidates(requested, sup) ==
    {r \in sup : /\ r <= requested + 1
                 /\ \E base \in {44100, 48000} :
                       /\ (requested % base) * 100 < base
                       /\ base = 48000 => (requested % 44100) * 100 >= 44100
                       /\ r \in {base, 2 * base, 4 * base}}

\* C39: when there is neither an exact match nor a same-family candidate,
\* select_optimal_sample_rate returns a supported rate nearest to requested, and
\* of two nearest rates the one that is >= requested; the result is fixed by the
\* set of supported rates.
C39_NearestPrefersAbove ==
    rate.pc = "done" =>
        LET req == rate.requested
            sup == {rate.supported[i] : i \in 1..Len(rate.supported)}
            sel == rate.selected
        IN  req \notin sup /\ FamilyCandidates(req, sup) = {} =>
               /\ sel \in sup
               /\ \A r \in sup : Abs(sel - req) <= Abs(r - req)
               /\ \A r \in sup : Abs(r - req) = Abs(sel - req) /\ r >= req => sel >= req

(***************************************************************************)
(* SpecWrap: the producer and the consumer of SpecRing on a ring through   *)
(* which samples may already have passed, so many that both counters stand *)
(* within MaxTotal of the top of their range (2^WordBits) and wrap around  *)
(* to 0 during the run. The ring is empty after them; what its slots hold  *)
(* from before is never read and stands as 0. The samples that follow are  *)
(* numbered from 1.                                                        *)
(***************************************************************************)
SpecWrap ==
    /\ InitRing
       \* `passed` samples are written and read: both counters stand at passed
    /\ [][\/ /\ write_pos = 0 /\ read_pos = 0 /\ accepted = 0
             /\ prod.pc = "idle" /\ cons.pc = "idle"
             /\ \E passed \in (Modulus - MaxTotal)..(Modulus - 1) :
                   write_pos' = passed /\ read_pos' = passed
             /\ UNCHANGED <<capacity, buffer, freeVars, outsideRing>>
          \/ PCall \/ PLoadWrite \/ PLoadRead \/ PCopyFirst \/ PCopySecond \/ PStore
          \/ CCall \/ CLoadRead \/ CLoadWrite \/ CCopyFirst \/ CCopySecond
          \/ CStore]_vars

\* C40: across the wrap of write_pos and read_pos modulo 2^WordBits the ring
\* behaves as before it: write_pos.wrapping_sub(read_pos) is the number of samples
\* written and not yet read, at most capacity; the unread samples sit, oldest
\* first, in the slots (read_pos + j) mod capacity; and what read has returned
\* is a prefix of what write has accepted (FIFO order).
C40_WrapKeepsFillAndOrder ==
    LET used == (write_pos - read_pos + Modulus) % Modulus
    IN  /\ used = accepted - Len(delivered)
        /\ used <= capacity
        /\ \A j \in 1..used :
              buffer[(read_pos + j - 1) % capacity] = Len(delivered) + j
        /\ IsPrefix(delivered, AcceptedStream)
        /\ cons.pc = "store" => IsPrefix(delivered \o cons.out, AcceptedStream)

\* write_pos has wrapped around and read_pos has not yet, with samples in the
\* ring on both sides of the wrap and samples already read.
C40_Witness ==
    /\ write_pos < read_pos
    /\ write_pos + Modulus - read_pos >= 2
    /\ write_pos >= 1
    /\ Len(delivered) >= 1
    /\ capacity >= 2
====
